---------------------------- MODULE Spec2Model ----------------------------
(***************************************************************************)
(* A model of the MegaFlow SDK (megaflow-labs/sdk):                        *)
(*   - MegaFlowBuilder's call ledger (calls / operations),                 *)
(*   - MegaFlowBuilder's terminal operations simulate, execute,            *)
(*     executeSync, executeRealtime and calculateRequiredETH,              *)
(*   - MegaFlowClient's nonce cache (getNextNonce / resetNonce).           *)
(*                                                                         *)
(* JavaScript objects are modelled with a heap: a MegaCall is an object    *)
(* id, heap[id] holds its fields, and the arrays hold ids, so that "the    *)
(* same object" and "an equal object" are different things, as in the      *)
(* source.  Every asynchronous method is cut at its awaits: the code       *)
(* between two awaits is one action (the run-to-completion rule of the     *)
(* single-threaded event loop), and what a collaborator answers is an      *)
(* input of the action that resumes the method.                            *)
(***************************************************************************)
EXTENDS Integers, Sequences, FiniteSets, TLC

VARIABLES
    heap,         \* object id -> MegaCall fields (the live MegaCall objects)
    calls,        \* MegaFlowBuilder.calls: sequence of object ids
    operations,   \* MegaFlowBuilder.operations: sequence of RecordedOperation
    walletClient, \* MegaFlowBuilder.walletClient: "none", "noAccount", "account"
    run,          \* the terminal operation of the builder that is in flight
    submitted,    \* the nonces of the latest requests submitted without a nonce option
    nonceCache,   \* MegaFlowClient.nonceCache: lower-cased address -> nonce
    inflight,     \* per address: getNextNonce calls suspended on the network read
    issued,       \* per cache key: every nonce getNextNonce returned, in order
    sinceReset,   \* per cache key: the returns since the last resetNonce, each
                  \* with the network's answer and whether another call for
                  \* the key was suspended when it returned
    snapshot,     \* what the caller holds of getState / getCalls / getOperations
    decoded,      \* the latest call of a decoding function: arguments and result
    twin,         \* an executeRealtime run given the inputs of an executeSync run
    popped,       \* what pop() returned to a caller that kept it, call by call
    client        \* a MegaFlowClient: its wallet and the builders batch() made

vars == <<heap, calls, operations, walletClient, run, submitted,
          nonceCache, inflight, issued, sinceReset, snapshot, decoded, twin,
          popped, client>>

ledgerVars == <<heap, calls, operations>>
nonceVars == <<nonceCache, inflight, issued, sinceReset>>
callerVars == <<snapshot, decoded, twin, popped, client>>

-----------------------------------------------------------------------------
(* Bounds of the model *)

\* The longest ledger the ledger specification builds.
MaxCalls == 3
\* The longest ledger the orchestrator specification builds.
MaxExecCalls == 2
\* How many getNextNonce calls one behaviour makes.
MaxNonceCalls == 3
\* The largest pending nonce the network reports.
MaxNetNonce == 2
\* How many pop() results one caller keeps.
MaxPops == 3
\* The longest token list getMultipleBalances is given.
MaxTokens == 2
\* The longest Result[] a rawReturnData decodes to.
MaxDecoded == 2
\* The largest callCount given to parseCallResults.
MaxCallCount == 3
\* How deep CallFailed payloads are nested in one another.
MaxNesting == 2
\* How many builders one client hands out.
MaxBuilders == 2
\* How many times the loop of chunkCalls is followed.
MaxChunks == 4

-----------------------------------------------------------------------------
(* Values *)

\* An optional value (undefined, or a value) is a sequence of at most one
\* element.
None == <<>>
Some(v) == <<v>>
Get(o) == o[1]

Max(a, b) == IF a >= b THEN a ELSE b

RECURSIVE SumSeq(_)
SumSeq(s) == IF s = <<>> THEN 0 ELSE Head(s) + SumSeq(Tail(s))

\* A MegaCall object's fields.
MegaCall(target, value, callData) ==
    [target |-> target, value |-> value, callData |-> callData]

\* Calldata is kept as the selector and the encoded arguments.
RawData(hex) == [sel |-> hex, args |-> <<>>]

\* encodeFunctionData(abi, functionName, args): the function's selector
\* followed by its ABI-encoded arguments.
Selector(functionName) ==
    CASE functionName = "approve" -> "0x095ea7b3"
      [] functionName = "transfer" -> "0xa9059cbb"
      [] functionName = "transferFrom" -> "0x23b872dd"
      [] functionName = "deposit" -> "0xd0e30db0"
      [] functionName = "withdraw" -> "0x2e1a7d4d"
      [] functionName = "swapExactTokensForTokens" -> "0x38ed1739"
      [] OTHER -> "0x00000000"

encodeFunctionData(functionName, args) ==
    [sel |-> Selector(functionName), args |-> args]

\* deadlineInMinutes(minutes), with Date.now() / 1000 passed as nowSec.
deadlineInMinutes(nowSec, minutes) == nowSec + minutes * 60

-----------------------------------------------------------------------------
(* The heap of MegaCall objects *)

ObjIds == 1 .. (2 * MaxCalls + 2)

\* The object ids an array of calls and an array of records refer to.
Refs(cs, ops) ==
    {cs[i] : i \in DOMAIN cs} \cup {ops[i].call : i \in DOMAIN ops}

\* The MegaCall objects the caller can still reach through the arrays that
\* getState, getCalls or getOperations returned.
Held ==
    IF snapshot = None THEN {}
    ELSE Refs(Get(snapshot).calls, Get(snapshot).operations) \cap ObjIds

\* The objects in use: those the ledger refers to and those the caller holds.
Live(cs, ops) == Refs(cs, ops) \cup Held

\* A fresh object: the least id that is not in use.
NewId(h) == CHOOSE n \in ObjIds : n \notin DOMAIN h /\
                \A m \in ObjIds : m \notin DOMAIN h => n <= m

\* The heap with object id holding the fields obj.
Alloc(h, id, obj) == [x \in DOMAIN h \cup {id} |-> IF x = id THEN obj ELSE h[x]]

\* The heap without the objects nothing refers to any more.
Collect(h, cs, ops) == [x \in DOMAIN h \cap Live(cs, ops) |-> h[x]]

\* The fields of the queued calls, in order (what an encoder reads).
CallValues(h, cs) == [i \in DOMAIN cs |-> h[cs[i]]]


-----------------------------------------------------------------------------
(* MegaFlowBuilder: the call ledger (builder.ts) *)

\* A ledger is the three fields the builder methods read and write.
Ledger == [heap |-> heap, calls |-> calls, operations |-> operations]

SetLedger(L) ==
    /\ heap' = Collect(L.heap, L.calls, L.operations)
    /\ calls' = L.calls
    /\ operations' = L.operations

Last(s) == s[Len(s)]
Front(s) == SubSeq(s, 1, Len(s) - 1)

\* this.calls.push(call), for a call object the caller has just created.
push(L, call) ==
    LET id == NewId(L.heap)
    IN  [L EXCEPT !.heap = Alloc(@, id, call), !.calls = Append(@, id)]

\* recordOperation(type, call, metadata): the record holds the call object
\* itself.  The timestamp (Date.now()) is read by nothing and is left out.
recordOperation(L, type, id, metadata) ==
    [L EXCEPT !.operations =
        Append(@, [type |-> type, call |-> id, metadata |-> metadata])]

add(L, target, callData, value) ==
    LET L1 == push(L, MegaCall(target, value, callData))
    IN  recordOperation(L1, "custom", Last(L1.calls), None)

addCall(L, target, functionName, args, value) ==
    add(L, target, encodeFunctionData(functionName, args), value)

sendETH(L, to, value) ==
    LET L1 == push(L, MegaCall(to, value, RawData("0x00")))
    IN  recordOperation(L1, "custom", Last(L1.calls),
            Some([type |-> "sendETH", to |-> to, value |-> ToString(value)]))

approve(L, token, spender, amount) ==
    addCall(L, token, "approve", <<spender, amount>>, 0)

\* A mutation of buildSafeApproveCalls: every nonzero allowance is reset.
buildSafeApproveCallsAlwaysResets(token, spender, amount, currentAllowance) ==
    LET approveCalldata(amt) == [sel |-> "0x095ea7b3", args |-> <<spender, amt>>]
        reset == IF currentAllowance > 0
                 THEN <<MegaCall(token, 0, approveCalldata(0))>>
                 ELSE <<>>
    IN  reset \o <<MegaCall(token, 0, approveCalldata(amount))>>

\* buildSafeApproveCalls: approve(0) first when the allowance is nonzero and
\* differs from the amount, then approve(amount).
buildSafeApproveCalls(token, spender, amount, currentAllowance) ==
    LET approveCalldata(amt) == [sel |-> "0x095ea7b3", args |-> <<spender, amt>>]
        reset == IF currentAllowance > 0 /\ currentAllowance # amount
                 THEN <<MegaCall(token, 0, approveCalldata(0))>>
                 ELSE <<>>
    IN  reset \o <<MegaCall(token, 0, approveCalldata(amount))>>

RECURSIVE safeApproveLoop(_, _, _)
safeApproveLoop(L, approvalCalls, metadata) ==
    IF approvalCalls = <<>> THEN L
    ELSE LET L1 == push(L, Head(approvalCalls))
             L2 == recordOperation(L1, "safeApprove", Last(L1.calls), metadata)
         IN  safeApproveLoop(L2, Tail(approvalCalls), metadata)

safeApprove(L, token, spender, amount, currentAllowance) ==
    safeApproveLoop(L,
        buildSafeApproveCalls(token, spender, amount, currentAllowance),
        Some([token |-> token, spender |-> spender, amount |-> ToString(amount)]))

transfer(L, token, to, amount) ==
    addCall(L, token, "transfer", <<to, amount>>, 0)

RECURSIVE multiTransfer(_, _, _)
multiTransfer(L, token, transfers) ==
    IF transfers = <<>> THEN L
    ELSE multiTransfer(transfer(L, token, Head(transfers).to, Head(transfers).amount),
                       token, Tail(transfers))

wrapETH(L, wethAddress, amount) ==
    addCall(L, wethAddress, "deposit", <<>>, amount)

unwrapWETH(L, wethAddress, amount) ==
    addCall(L, wethAddress, "withdraw", <<amount>>, 0)

\* params.deadline ?? deadlineInMinutes(5)
swapExactTokensForTokens(L, params, nowSec) ==
    addCall(L, params.router, "swapExactTokensForTokens",
        << params.amountIn, params.amountOutMin, params.path, params.to,
           IF params.deadline # None THEN Get(params.deadline)
           ELSE deadlineInMinutes(nowSec, 5) >>, 0)

approveAndSwap(L, params, nowSec) ==
    swapExactTokensForTokens(
        approve(L, params.token, params.router, params.amountIn), params, nowSec)

clear(L) == [L EXCEPT !.calls = <<>>, !.operations = <<>>]

\* The lines summary() prints under "Operations:", one for each record:
\* `  ${i + 1}. ${op.type} → ${target}` with target the first ten characters
\* of op.call.target (the addresses here are no longer than that) and "...".
summaryOperations(L) ==
    [i \in DOMAIN L.operations |->
        "  " \o ToString(i) \o ". " \o L.operations[i].type \o " → "
             \o L.heap[L.operations[i].call].target \o "..."]

\* A mutation of pop: the operation record is left behind.
popCallOnly(L) == [L EXCEPT !.calls = IF @ = <<>> THEN @ ELSE Front(@)]

\* this.operations.pop(); return this.calls.pop();  (Array.pop on an empty
\* array removes nothing)
pop(L) ==
    [L EXCEPT !.operations = IF @ = <<>> THEN @ ELSE Front(@),
              !.calls = IF @ = <<>> THEN @ ELSE Front(@)]

\* A mutation of popReturned: the oldest call is returned (Array.shift).
popReturnedOldest(L) == IF L.calls = <<>> THEN None ELSE Some(L.heap[L.calls[1]])

\* What pop() returns: this.calls.pop() is undefined on an empty array and
\* the removed last element otherwise.
popReturned(L) ==
    IF L.calls = <<>> THEN None ELSE Some(L.heap[Last(L.calls)])

\* A mutation of getTotalValue: the calls are counted.
getTotalValueCountsCalls(L) == Len(L.calls)

\* this.calls.reduce((sum, c) => sum + c.value, 0n)
getTotalValue(L) == SumSeq([i \in DOMAIN L.calls |-> L.heap[L.calls[i]].value])

-----------------------------------------------------------------------------
(* Inputs of the builder methods *)

TOKEN_USDC == "0x1111"
TOKEN_WETH == "0x4200"
DEX_ROUTER == "0x2222"
USER == "0x3333"
RECIPIENT == "0x4444"

Values == {0, 1}
ExecValues == {1}
Amounts == {1, 2}
Allowances == {0, 1}
NowValues == {1000}

SwapParamsSet ==
    { [token |-> TOKEN_USDC, router |-> DEX_ROUTER, amountIn |-> 1,
       amountOutMin |-> 0, path |-> <<TOKEN_USDC, TOKEN_WETH>>, to |-> USER,
       deadline |-> d] : d \in {None, Some(100)} }

TransferLists ==
    { <<>>, <<[to |-> RECIPIENT, amount |-> 1]>>,
      <<[to |-> RECIPIENT, amount |-> 1], [to |-> USER, amount |-> 2]>> }

(* The builder methods as actions.  limit bounds the ledger's length. *)
(* add takes its values from the set the specification gives it.       *)

Add(limit, values) ==
    \E value \in values :
        /\ SetLedger(add(Ledger, TOKEN_USDC, RawData("0xdeadbeef"), value))
        /\ Len(calls') <= limit

SendETH(limit) ==
    \E value \in Values :
        /\ SetLedger(sendETH(Ledger, RECIPIENT, value))
        /\ Len(calls') <= limit

Approve(limit) ==
    \E amount \in Amounts :
        /\ SetLedger(approve(Ledger, TOKEN_USDC, DEX_ROUTER, amount))
        /\ Len(calls') <= limit

SafeApprove(limit) ==
    \E amount \in Amounts, currentAllowance \in Allowances :
        /\ SetLedger(safeApprove(Ledger, TOKEN_USDC, DEX_ROUTER, amount,
                                 currentAllowance))
        /\ Len(calls') <= limit

MultiTransfer(limit) ==
    \E transfers \in TransferLists :
        /\ SetLedger(multiTransfer(Ledger, TOKEN_USDC, transfers))
        /\ Len(calls') <= limit

WrapETH(limit) ==
    \E amount \in Amounts :
        /\ SetLedger(wrapETH(Ledger, TOKEN_WETH, amount))
        /\ Len(calls') <= limit

UnwrapWETH(limit) ==
    \E amount \in Amounts :
        /\ SetLedger(unwrapWETH(Ledger, TOKEN_WETH, amount))
        /\ Len(calls') <= limit

SwapExactTokensForTokens(limit) ==
    \E params \in SwapParamsSet, nowSec \in NowValues :
        /\ SetLedger(swapExactTokensForTokens(Ledger, params, nowSec))
        /\ Len(calls') <= limit

ApproveAndSwap(limit) ==
    \E params \in SwapParamsSet, nowSec \in NowValues :
        /\ SetLedger(approveAndSwap(Ledger, params, nowSec))
        /\ Len(calls') <= limit

Pop == SetLedger(pop(Ledger))

\* const last = builder.pop()
PopAndKeep ==
    /\ Len(popped) < MaxPops
    /\ popped' = Append(popped, popReturned(Ledger))
    /\ SetLedger(pop(Ledger))
    /\ UNCHANGED <<walletClient, run, submitted, nonceVars, snapshot, decoded,
                   twin, client>>

Clear == SetLedger(clear(Ledger))


-----------------------------------------------------------------------------
(* MegaFlowClient: nonce management (client.ts) *)

\* Addresses as callers pass them; the first two differ only in letter case.
Addresses == {"0xAbC1", "0xabc1", "0xDEF2"}

\* A mutation of toLowerCase: the address is the key as it was passed.
toLowerCaseKeepsCase(address) == address

\* address.toLowerCase()
toLowerCase(address) ==
    CASE address = "0xAbC1" -> "0xabc1"
      [] address = "0xDEF2" -> "0xdef2"
      [] OTHER -> address

Keys == {toLowerCase(a) : a \in Addresses}

NetNonces == 0 .. MaxNetNonce

\* A mutation of lastUsedOf: the entry is never found.
lastUsedNeverCached(cache, key) == -1

\* this.nonceCache.get(key) ?? -1
lastUsedOf(cache, key) == IF key \in DOMAIN cache THEN cache[key] ELSE -1

\* A mutation of nextNonce: the cached value is ignored.
nextNonceNetworkOnly(networkNonce, lastUsed) == networkNonce

\* A mutation of nextNonce: the cached value is not incremented.
nextNonceNoIncrement(networkNonce, lastUsed) == Max(networkNonce, lastUsed)

\* Math.max(networkNonce, lastUsed + 1)
nextNonce(networkNonce, lastUsed) == Max(networkNonce, lastUsed + 1)

\* this.nonceCache.set(key, nonce)
cacheSet(cache, key, nonce) ==
    [k \in DOMAIN cache \cup {key} |-> IF k = key THEN nonce ELSE cache[k]]

\* A mutation of cacheDelete: the whole cache is dropped.
cacheDeleteAll(cache, key) == [k \in {} |-> 0]

\* this.nonceCache.delete(key)
cacheDelete(cache, key) == [k \in DOMAIN cache \ {key} |-> cache[k]]

\* The sum of f over the set S.
RECURSIVE SumFn(_, _)
SumFn(f, S) ==
    IF S = {} THEN 0
    ELSE LET x == CHOOSE y \in S : TRUE IN f[x] + SumFn(f, S \ {x})

\* The getNextNonce calls in flight for a cache key.
InflightFor(key) ==
    SumFn(inflight, {a \in Addresses : toLowerCase(a) = key})

NonceCallsMade ==
    SumFn([k \in Keys |-> Len(issued[k])], Keys) + SumFn(inflight, Addresses)

\* getNextNonce(address) up to its await: the key is computed and the
\* pending-nonce request is sent; the method is suspended.
GetNextNonceCall ==
    \E address \in Addresses :
        /\ NonceCallsMade < MaxNonceCalls
        /\ inflight' = [inflight EXCEPT ![address] = @ + 1]
        /\ UNCHANGED <<nonceCache, issued, sinceReset>>
        /\ UNCHANGED <<ledgerVars, walletClient, run, submitted, callerVars>>

\* getNextNonce(address) from the answer of getTransactionCount to its
\* return: one synchronous stretch that reads the cache, computes the nonce
\* and stores it.
GetNextNonceReturn ==
    \E address \in Addresses, networkNonce \in NetNonces :
        /\ inflight[address] > 0
        /\ LET key == toLowerCase(address)
               lastUsed == lastUsedOf(nonceCache, key)
               nonce == nextNonce(networkNonce, lastUsed)
               entry == [nonce |-> nonce, network |-> networkNonce,
                         address |-> address,
                         overlap |-> InflightFor(key) > 1]
           IN  /\ nonceCache' = cacheSet(nonceCache, key, nonce)
               /\ issued' = [issued EXCEPT ![key] = Append(@, nonce)]
               /\ sinceReset' = [sinceReset EXCEPT ![key] = Append(@, entry)]
        /\ inflight' = [inflight EXCEPT ![address] = @ - 1]
        /\ UNCHANGED <<ledgerVars, walletClient, run, submitted, callerVars>>

\* getTransactionCount rejects: getNextNonce raises before it reads the cache.
GetNextNonceFail ==
    \E address \in Addresses :
        /\ inflight[address] > 0
        /\ inflight' = [inflight EXCEPT ![address] = @ - 1]
        /\ UNCHANGED <<nonceCache, issued, sinceReset>>
        /\ UNCHANGED <<ledgerVars, walletClient, run, submitted, callerVars>>

\* resetNonce(address)
ResetNonce ==
    \E address \in Addresses :
        /\ nonceCache' = cacheDelete(nonceCache, toLowerCase(address))
        /\ sinceReset' = [sinceReset EXCEPT ![toLowerCase(address)] = <<>>]
        /\ UNCHANGED <<inflight, issued>>
        /\ UNCHANGED <<ledgerVars, walletClient, run, submitted, callerVars>>


-----------------------------------------------------------------------------
(* Result / error decoding (utils.ts) *)

(* A payload (a hex string, or the text of an error message that the code   *)
(* treats as one) is kept as                                                 *)
(*   head: its first 10 characters as given (all of it when it is shorter), *)
(*   len:  its length in characters,                                        *)
(*   body: what decodeAbiParameters makes of the part after the first 10    *)
(*         characters: a string, a uint256, a (uint256, bytes) pair whose   *)
(*         bytes are again a payload, or nothing that decodes.              *)
Payload(head, len, body) == [head |-> head, len |-> len, body |-> body]

Garbage == [kind |-> "garbage"]
StringBody(message) == [kind |-> "string", message |-> message]
UintBody(code) == [kind |-> "uint", code |-> code]
IndexBytesBody(index, inner) == [kind |-> "indexBytes", index |-> index, inner |-> inner]

EmptyPayload == Payload("0x", 2, Garbage)

\* A mutation of headToLowerCase: the selector is compared as it came.
headKeepsCase(head) == head

\* String.prototype.toLowerCase on the heads the model uses.
headToLowerCase(head) ==
    CASE head = "0x08C379A0" -> "0x08c379a0"
      [] head = "0x4E487B71" -> "0x4e487b71"
      [] head = "0x85D9D0B8" -> "0x85d9d0b8"
      [] head = "0xDEADBEEF" -> "0xdeadbeef"
      [] head = "CallFailed" -> "callfailed"
      [] OTHER -> head

\* A uint256 as decodeAbiParameters returns it is kept as its hexadecimal
\* digits, most significant first and without leading zeros (<<0>> for 0); a
\* double that holds an integer is kept in the same way.
HexChars ==
    <<"0", "1", "2", "3", "4", "5", "6", "7", "8", "9", "a", "b", "c", "d",
      "e", "f">>

\* The binary digits of a number, most significant first, none for 0.
BitsOf(digits) ==
    LET weight(i) == CASE i % 4 = 1 -> 8 [] i % 4 = 2 -> 4
                       [] i % 4 = 3 -> 2 [] OTHER -> 1
        all == [i \in 1 .. 4 * Len(digits) |->
                  (digits[(i - 1) \div 4 + 1] \div weight(i)) % 2]
        ones == {i \in DOMAIN all : all[i] = 1}
    IN  IF ones = {} THEN <<>>
        ELSE SubSeq(all, CHOOSE i \in ones : \A j \in ones : i <= j, Len(all))

\* The hexadecimal digits of a number given by its binary digits.
DigitsOf(bits) ==
    LET pad == (4 - (Len(bits) % 4)) % 4
        b == [i \in 1 .. pad |-> 0] \o bits
    IN  IF bits = <<>> THEN <<0>>
        ELSE [j \in 1 .. Len(b) \div 4 |->
                8 * b[4 * j - 3] + 4 * b[4 * j - 2] + 2 * b[4 * j - 1] + b[4 * j]]

\* The significand of a double.
MantissaBits == 53

\* Number(code) of a bigint: the nearest double, ties to the even
\* significand; every integer of at most 53 binary digits is kept.
Number(code) ==
    LET bits == BitsOf(code)
        n == Len(bits)
        top == SubSeq(bits, 1, MantissaBits)
        rest == SubSeq(bits, MantissaBits + 1, n)
        up == /\ rest[1] = 1
              /\ \/ top[MantissaBits] = 1
                 \/ \E i \in 2 .. Len(rest) : rest[i] = 1
        zeros == {i \in DOMAIN top : top[i] = 0}
        last == CHOOSE i \in zeros : \A j \in zeros : j <= i
        next == IF zeros = {} THEN <<1>> \o [i \in DOMAIN top |-> 0]
                ELSE [i \in DOMAIN top |->
                        IF i < last THEN top[i] ELSE IF i = last THEN 1 ELSE 0]
        kept == IF up THEN next ELSE top
    IN  IF n <= MantissaBits THEN code
        ELSE DigitsOf(kept \o [i \in 1 .. n - MantissaBits |-> 0])

\* Number.prototype.toString(16)
RECURSIVE toHex(_)
toHex(code) ==
    IF code = <<>> THEN ""
    ELSE HexChars[Head(code) + 1] \o toHex(Tail(code))

\* decodePanicCode(code), the codes written as in the source (0x11, ...).
decodePanicCode(code) ==
    CASE code = <<0>> -> "generic panic"
      [] code = <<1>> -> "assert failed"
      [] code = <<1, 1>> -> "arithmetic overflow/underflow"
      [] code = <<1, 2>> -> "division by zero"
      [] code = <<2, 1>> -> "invalid enum value"
      [] code = <<2, 2>> -> "storage access out of bounds"
      [] code = <<3, 1>> -> "pop on empty array"
      [] code = <<3, 2>> -> "array index out of bounds"
      [] code = <<4, 1>> -> "out of memory"
      [] code = <<5, 1>> -> "uninitialized function pointer"
      [] OTHER -> "code 0x" \o toHex(code)

\* A mutation of customErrors: the texts of the errors are left out.
customErrorsUnnamed ==
    [s \in {"0x3e3f8f73", "0xfe9ba5cd", "0xd4a5e2bf", "0x1425f8f8",
            "0x4a3f0f2d", "0x85d9d0b8", "0xb5e9e6d2", "0x750b219c"} |->
        "MegaRouter error"]

customErrors ==
    [s \in {"0x3e3f8f73", "0xfe9ba5cd", "0xd4a5e2bf", "0x1425f8f8",
            "0x4a3f0f2d", "0x85d9d0b8", "0xb5e9e6d2", "0x750b219c"} |->
        CASE s = "0x3e3f8f73" -> "ReentrancyGuard: re-entrant call"
          [] s = "0xfe9ba5cd" -> "InsufficientETH: not enough ETH sent"
          [] s = "0xd4a5e2bf" -> "InsufficientFee: flat fee not covered"
          [] s = "0x1425f8f8" -> "InvalidTarget: call target is address(0)"
          [] s = "0x4a3f0f2d" -> "EmptyCalldata: callData must not be empty"
          [] s = "0x85d9d0b8" -> "CallFailed: one of the batch calls reverted"
          [] s = "0xb5e9e6d2" -> "FeeTransferFailed: could not send fee to collector"
          [] s = "0x750b219c" -> "SweepFailed: could not return leftover ETH"]

\* A mutation of ErrorStringReason: a body that does not decode leaves the
\* caller without a text.
ErrorStringReasonUncaught(body) ==
    IF body.kind = "string" THEN "Reverted: " \o body.message ELSE ""

\* The Error(string) branch: the try around decodeAbiParameters and its
\* catch.
ErrorStringReason(body) ==
    IF body.kind = "string"
    THEN "Reverted: " \o body.message
    ELSE "Reverted (Error selector found but decode failed)"

\* A mutation of CallFailedReason: the decoded inner reason is dropped.
CallFailedReasonDropsInner(callIndex, inner) ==
    "Call #" \o ToString(callIndex) \o " failed"

\* `Call #${callIndex} failed → ${inner}`
CallFailedReason(callIndex, inner) ==
    "Call #" \o ToString(callIndex) \o " failed → " \o inner

RECURSIVE decodeRevertError(_)
decodeRevertError(returnData) ==
    IF returnData.len < 10
    THEN "Execution reverted with no data"
    ELSE LET selector == headToLowerCase(returnData.head)
             body == returnData.body
         IN  IF selector = "0x08c379a0"
             THEN ErrorStringReason(body)
             ELSE IF selector = "0x4e487b71"
             THEN IF body.kind = "uint"
                  THEN "Panic: " \o decodePanicCode(Number(body.code))
                  ELSE "Panic: unknown code"
             ELSE IF selector \in DOMAIN customErrors
             THEN IF selector = "0x85d9d0b8"
                  THEN IF body.kind = "indexBytes"
                       THEN CallFailedReason(body.index,
                                             decodeRevertError(body.inner))
                       ELSE customErrors[selector]
                  ELSE customErrors[selector]
             ELSE "Reverted with unknown selector " \o selector

\* A mutation of DefaultResult: a call without a log counts as failed.
DefaultResultFailed == [success |-> FALSE, returnData |-> "0x"]

\* The result parseCallResults assumes for a call it knows nothing about.
DefaultResult == [success |-> TRUE, returnData |-> "0x"]

\* The Map that the loop over receipt.logs builds: a later CallExecuted log
\* of an index replaces an earlier one; other logs are skipped.
RECURSIVE resultMapOf(_, _)
resultMapOf(logs, map) ==
    IF logs = <<>> THEN map
    ELSE LET log == Head(logs)
             next == IF log.eventName = "CallExecuted"
                     THEN [k \in DOMAIN map \cup {log.callIndex} |->
                             IF k = log.callIndex
                             THEN [success |-> log.success, returnData |-> "0x"]
                             ELSE map[k]]
                     ELSE map
         IN  resultMapOf(Tail(logs), next)

\* A mutation of parseCallResults: the logs are preferred to rawReturnData.
parseCallResultsLogsFirst(receipt, callCount, rawReturnData) ==
    LET resultMap == resultMapOf(receipt.logs, <<>>)
    IN  IF DOMAIN resultMap # {}
        THEN [i \in 1 .. callCount |->
                IF (i - 1) \in DOMAIN resultMap THEN resultMap[i - 1]
                ELSE DefaultResult]
        ELSE IF /\ rawReturnData # None
                /\ Get(rawReturnData).len > 2
                /\ Get(rawReturnData).decoded # None
        THEN Get(Get(rawReturnData).decoded)
        ELSE [i \in 1 .. callCount |-> DefaultResult]

\* parseCallResults(receipt, callCount, rawReturnData).  rawReturnData is
\* None, or Some([len, decoded]) with decoded the Result[] it ABI-decodes
\* to (None when it does not decode).  The results are indexed from 1.
parseCallResults(receipt, callCount, rawReturnData) ==
    IF /\ rawReturnData # None
       /\ Get(rawReturnData).len > 2
       /\ Get(rawReturnData).decoded # None
    THEN Get(Get(rawReturnData).decoded)
    ELSE LET resultMap == resultMapOf(receipt.logs, <<>>)
         IN  IF DOMAIN resultMap # {}
             THEN [i \in 1 .. callCount |->
                     IF (i - 1) \in DOMAIN resultMap THEN resultMap[i - 1]
                     ELSE DefaultResult]
             ELSE [i \in 1 .. callCount |-> DefaultResult]

\* A mutation of applyMegaethGasBuffer: the quotient is rounded up.
applyMegaethGasBufferRoundsUp(estimate, bufferPct) ==
    (estimate * (100 + bufferPct) + 99) \div 100

\* applyMegaethGasBuffer(estimate, bufferPct = 10)
applyMegaethGasBuffer(estimate, bufferPct) ==
    (estimate * (100 + bufferPct)) \div 100

DefaultBufferPct == 10

\* extractFailedCallIndex(errorMessage): the first of the two patterns that
\* matches decides.  A message carries what each pattern finds in its text.
extractFailedCallIndex(errorMessage) ==
    IF errorMessage.callFailedMatch # None THEN errorMessage.callFailedMatch
    ELSE errorMessage.callIndexMatch


-----------------------------------------------------------------------------
(* What the collaborators (the chain client and the wallet) can answer *)

\* The text of a thrown error, with what the code reads from it: its head,
\* length and body as a payload (simulate passes the text to
\* decodeRevertError) and what the two patterns of extractFailedCallIndex
\* find in it.
ErrorMessage(text, head, len, body, callFailedMatch, callIndexMatch) ==
    [text |-> text, head |-> head, len |-> len, body |-> body,
     callFailedMatch |-> callFailedMatch, callIndexMatch |-> callIndexMatch]

ErrorMessages ==
    { ErrorMessage("execution reverted", "execution ", 18, Garbage, None, None),
      ErrorMessage("CallFailed(1, 0x)", "CallFailed", 17, Garbage, Some(1), None),
      ErrorMessage("timeout", "timeout", 7, Garbage, None, None),
      ErrorMessage("0x08c379a0<paused>", "0x08c379a0", 138, StringBody("paused"),
                   None, None) }

RequiredValues == {0, 1}
GasEstimates == {0, 100000}
SimResults == { <<DefaultResult>> }
Hashes == {"0xhash"}

CallExecutedLog(callIndex, success) ==
    [eventName |-> "CallExecuted", callIndex |-> callIndex, success |-> success]

ForeignLog == [eventName |-> "Transfer"]

Receipt(status, logs) ==
    [status |-> status, logs |-> logs, gasUsed |-> 21000, effectiveGasPrice |-> 2]

Receipts ==
    { Receipt("success", <<>>),
      Receipt("success", <<ForeignLog, CallExecutedLog(1, FALSE), CallExecutedLog(0, TRUE)>>),
      Receipt("reverted", <<>>) }

\* ExecuteOptions
Options(gasLimit, maxFeePerGas, maxPriorityFeePerGas, nonce) ==
    [gasLimit |-> gasLimit, maxFeePerGas |-> maxFeePerGas,
     maxPriorityFeePerGas |-> maxPriorityFeePerGas, nonce |-> nonce]

NoOptions == Options(None, None, None, None)

OptionsSet == { NoOptions, Options(Some(300000), Some(5), Some(1), Some(7)) }

-----------------------------------------------------------------------------
(* MegaFlowBuilder: simulate, execute, executeSync, executeRealtime and     *)
(* calculateRequiredETH (builder.ts)                                        *)

ExecOps == {"execute", "executeSync", "executeRealtime"}
RunOps == ExecOps \cup {"simulate", "calculateRequiredETH"}

IdleRun ==
    [op |-> "none", pc |-> "idle", options |-> NoOptions, readArgs |-> None,
     requiredETH |-> None, request |-> None, simResult |-> None,
     gasEstimate |-> None, hash |-> None, log |-> <<>>, outcome |-> "none", error |-> None,
     result |-> None, startTime |-> None]

\* this.walletClient?.account
AccountOf(wallet) == IF wallet = "account" THEN Some(USER) ELSE None

MegaFlowError(code) == [name |-> "MegaFlowError", code |-> code]
ThrownError(message) == [name |-> "Error", message |-> message]
TypeError == [name |-> "TypeError"]

\* A mutation of Preconditions: the wallet is checked before the ledger.
PreconditionsWalletFirst(op, cs, wallet) ==
    IF op \in ExecOps /\ wallet = "none" THEN Some("WALLET_NOT_CONNECTED")
    ELSE IF op \in ExecOps /\ wallet = "noAccount" THEN Some("NO_ACCOUNT")
    ELSE IF cs = <<>> THEN Some("EMPTY_BATCH")
    ELSE None

\* A mutation of Preconditions: simulate does not check the ledger.
PreconditionsNoSimulateCheck(op, cs, wallet) ==
    IF op = "simulate" THEN None
    ELSE IF cs = <<>> THEN Some("EMPTY_BATCH")
    ELSE IF wallet = "none" THEN Some("WALLET_NOT_CONNECTED")
    ELSE IF wallet = "noAccount" THEN Some("NO_ACCOUNT")
    ELSE None

\* A mutation of Preconditions: a builder submits once.
PreconditionsSubmitOnce(op, cs, wallet) ==
    IF cs = <<>> THEN Some("EMPTY_BATCH")
    ELSE IF op = "simulate" THEN None
    ELSE IF submitted # <<>> THEN Some("ALREADY_SUBMITTED")
    ELSE IF wallet = "none" THEN Some("WALLET_NOT_CONNECTED")
    ELSE IF wallet = "noAccount" THEN Some("NO_ACCOUNT")
    ELSE None

\* The assertions at the head of simulate and of execute, executeSync and
\* executeRealtime: the code of the MegaFlowError raised, or None.
Preconditions(op, cs, wallet) ==
    IF cs = <<>> THEN Some("EMPTY_BATCH")
    ELSE IF op = "simulate" THEN None
    ELSE IF wallet = "none" THEN Some("WALLET_NOT_CONNECTED")
    ELSE IF wallet = "noAccount" THEN Some("NO_ACCOUNT")
    ELSE None

\* The run with one more collaborator call made and not yet answered.
Calling(r, call) ==
    [r EXCEPT !.pc = call, !.log = Append(@, [call |-> call, res |-> "pending"])]

\* The run with its pending collaborator call answered.
Answered(r, res) == [r EXCEPT !.log[Len(r.log)].res = res]

\* The run ended by an exception that reaches the caller.
Raised(r, error) ==
    [r EXCEPT !.pc = "done", !.outcome = "raised", !.error = Some(error)]

\* The run ended by returning a value.
Returned(r, result) ==
    [r EXCEPT !.pc = "done", !.outcome = "returned", !.result = Some(result)]

\* The catch block of simulate.
SimulationFailure(errorMessage) ==
    [success |-> FALSE, error |-> errorMessage.text,
     revertReason |-> decodeRevertError(errorMessage),
     failedCallIndex |-> extractFailedCallIndex(errorMessage)]

\* A mutation of Failed: simulate lets the error propagate.
FailedSimulateRaises(r, errorMessage) ==
    Raised(Answered(r, "fail"), ThrownError(errorMessage.text))

\* A collaborator call of the run rejects: simulate catches the error and
\* returns a failure value, every other operation lets it propagate.
Failed(r, errorMessage) ==
    IF r.op = "simulate"
    THEN Returned(Answered(r, "fail"), SimulationFailure(errorMessage))
    ELSE Raised(Answered(r, "fail"), ThrownError(errorMessage.text))

\* A mutation of calculateRequiredETH: the router is read for an empty
\* ledger too.
calculateRequiredETHAlwaysReads(r, h, cs) ==
    [Calling(r, "readContract") EXCEPT !.readArgs = Some(CallValues(h, cs))]

\* calculateRequiredETH(): 0 for an empty ledger, else a read of the router
\* with the call list.
calculateRequiredETH(r, h, cs) ==
    IF Len(cs) = 0 THEN [r EXCEPT !.requiredETH = Some(0)]
    ELSE [Calling(r, "readContract") EXCEPT !.readArgs = Some(CallValues(h, cs))]


\* A mutation of DryCallArgs: executeRealtime leaves the gas limit out.
DryCallArgsRealtimeNoGas(op, options, h, cs, requiredETH, wallet) ==
    [calls |-> CallValues(h, cs), value |-> requiredETH,
     account |-> AccountOf(wallet),
     gas |-> IF op \in {"execute", "executeSync"} THEN options.gasLimit
             ELSE None,
     maxFeePerGas |-> IF op = "execute" THEN options.maxFeePerGas ELSE None,
     maxPriorityFeePerGas |->
         IF op = "execute" THEN options.maxPriorityFeePerGas ELSE None,
     nonce |-> IF op = "execute" THEN options.nonce ELSE None]

\* The arguments of the dry call (simulateContract) of each operation.
DryCallArgs(op, options, h, cs, requiredETH, wallet) ==
    [calls |-> CallValues(h, cs), value |-> requiredETH,
     account |-> AccountOf(wallet),
     gas |-> IF op \in ExecOps THEN options.gasLimit ELSE None,
     maxFeePerGas |-> IF op = "execute" THEN options.maxFeePerGas ELSE None,
     maxPriorityFeePerGas |->
         IF op = "execute" THEN options.maxPriorityFeePerGas ELSE None,
     nonce |-> IF op = "execute" THEN options.nonce ELSE None]

\* A mutation of AfterRequired: execute hands the request to the wallet
\* without the dry call.
AfterRequiredSkipsDryCall(r, h, cs, wallet) ==
    IF r.op \in ExecOps /\ wallet = "none" THEN Raised(r, TypeError)
    ELSE [Calling(r, IF r.op = "execute" THEN "writeContract"
                     ELSE "simulateContract") EXCEPT
            !.request = Some(DryCallArgs(r.op, r.options, h, cs,
                                         Get(r.requiredETH), wallet))]

\* The code that follows `await this.calculateRequiredETH()`: the dry call
\* is made.  execute* read this.walletClient!.account!, which throws a
\* TypeError when the wallet was disconnected meanwhile.
AfterRequired(r, h, cs, wallet) ==
    IF r.op \in ExecOps /\ wallet = "none" THEN Raised(r, TypeError)
    ELSE [Calling(r, "simulateContract") EXCEPT
            !.request = Some(DryCallArgs(r.op, r.options, h, cs,
                                         Get(r.requiredETH), wallet))]

\* The RPC method of the synchronous submission.
SyncMethod(op) ==
    IF op = "executeSync" THEN "eth_sendRawTransactionSync"
    ELSE "realtime_sendRawTransaction"

\* The record of submissions with the request of run r handed over.  It
\* keeps, for the two latest submissions whose caller gave no nonce option,
\* the nonce that the submitted request carries.
Submit(subs, r) ==
    IF r.options.nonce # None THEN subs
    ELSE IF subs = <<>> THEN <<Get(r.request).nonce>>
    ELSE <<Last(subs), Get(r.request).nonce>>

\* A mutation of ExecutionResult: return bytes are handed to the decoder.
ExecutionResultFromReturnData(r, receipt, callCount) ==
    [hash |-> r.hash, receipt |-> receipt,
     results |-> parseCallResults(receipt, callCount,
                    Some([len |-> 450,
                          decoded |-> Some(<<[success |-> FALSE,
                                              returnData |-> "0x01"]>>)])),
     gasUsed |-> receipt.gasUsed,
     effectiveGasPrice |-> receipt.effectiveGasPrice,
     totalCost |-> receipt.gasUsed * receipt.effectiveGasPrice]

\* The results and the returned value of execute.
ExecutionResult(r, receipt, callCount) ==
    [hash |-> r.hash, receipt |-> receipt,
     results |-> parseCallResults(receipt, callCount, None),
     gasUsed |-> receipt.gasUsed,
     effectiveGasPrice |-> receipt.effectiveGasPrice,
     totalCost |-> receipt.gasUsed * receipt.effectiveGasPrice]

\* performance.now(), on a clock that ticks once with every collaborator
\* call of the run that has been answered.
performanceNow(r) ==
    Cardinality({i \in DOMAIN r.log : r.log[i].res # "pending"})

\* The results and the returned value of executeSync and executeRealtime;
\* r is the run with the submission answered.
SyncResult(r, receipt, callCount) ==
    [receipt |-> receipt,
     results |-> parseCallResults(receipt, callCount, None),
     gasUsed |-> receipt.gasUsed,
     executionTimeMs |-> performanceNow(r) - Get(r.startTime)]

\* The run with the synchronous call to parseCallResults noted in its log.
Decoded(r) == [r EXCEPT !.log = Append(@, [call |-> "parseCallResults", res |-> "ok"])]

NoRunInFlight == run.pc \in {"idle", "done"}

(* The steps of the operations as functions of the run and of what the     *)
(* step reads: the ledger, the wallet and the collaborator's answer.       *)

\* simulate(), execute(options), executeSync(options) or
\* executeRealtime(options), up to its first await.
StartOf(op, options, h, cs, wallet) ==
    LET r == [IdleRun EXCEPT !.op = op, !.options = options]
        failure == Preconditions(op, cs, wallet)
        timed == IF op \in {"executeSync", "executeRealtime"}
                 THEN [r EXCEPT !.startTime = Some(performanceNow(r))]
                 ELSE r
        r1 == calculateRequiredETH(timed, h, cs)
    IN  IF failure # None
        THEN Raised(r, MegaFlowError(Get(failure)))
        ELSE IF r1.requiredETH # None
        THEN AfterRequired(r1, h, cs, wallet)
        ELSE r1

\* readContract(calculateRequiredETH) has answered.
AfterRequiredValueRead(r, requiredETH, h, cs, wallet) ==
    LET r1 == [Answered(r, "ok") EXCEPT !.requiredETH = Some(requiredETH)]
    IN  IF r.op = "calculateRequiredETH"
        THEN Returned(r1, requiredETH)
        ELSE AfterRequired(r1, h, cs, wallet)

\* simulateContract has answered executeSync() / executeRealtime().
AfterDryCallSync(r, wallet) ==
    IF wallet = "none"
    THEN Raised(Answered(r, "ok"), TypeError)
    ELSE Calling(Answered(r, "ok"), "signTransaction")

\* A mutation of AfterSigned: the clock is started just before the
\* submission.
AfterSignedStartsClock(r) ==
    [Calling(Answered(r, "ok"), SyncMethod(r.op)) EXCEPT
        !.startTime = Some(performanceNow(Answered(r, "ok")))]

\* signTransaction has answered.
AfterSigned(r) == Calling(Answered(r, "ok"), SyncMethod(r.op))

\* The synchronous submission has answered with the receipt: the clock is
\* read, then the results are decoded.
AfterSyncReceipt(r, receipt, callCount) ==
    Returned(Decoded(Answered(r, "ok")),
             SyncResult(Answered(r, "ok"), receipt, callCount))

(* The operations up to their first await. *)

\* simulate(), execute(options), executeSync(options), executeRealtime(options)
StartRun ==
    \E op \in RunOps \ {"calculateRequiredETH"}, options \in OptionsSet :
        /\ NoRunInFlight
        /\ op = "simulate" => options = NoOptions
        /\ run' = StartOf(op, options, heap, calls, walletClient)
        /\ UNCHANGED <<ledgerVars, walletClient, submitted, nonceVars, callerVars>>

\* simulate()
StartSimulate ==
    /\ NoRunInFlight
    /\ run' = StartOf("simulate", NoOptions, heap, calls, walletClient)
    /\ UNCHANGED <<ledgerVars, walletClient, submitted, nonceVars, callerVars>>

\* calculateRequiredETH() called by itself.
StartCalculateRequiredETH ==
    /\ NoRunInFlight
    /\ LET r == calculateRequiredETH(
                    [IdleRun EXCEPT !.op = "calculateRequiredETH"], heap, calls)
       IN  run' = IF r.requiredETH # None THEN Returned(r, Get(r.requiredETH))
                  ELSE r
    /\ UNCHANGED <<ledgerVars, walletClient, submitted, nonceVars, callerVars>>

(* The operations from the answer of one collaborator call to the next. *)

\* Any pending collaborator call rejects.
CallFails ==
    \E errorMessage \in ErrorMessages :
        /\ run.pc \notin {"idle", "done"}
        /\ run' = Failed(run, errorMessage)
        /\ UNCHANGED <<ledgerVars, walletClient, submitted, nonceVars, callerVars>>

\* readContract(calculateRequiredETH) answers.
RequiredValueRead ==
    \E requiredETH \in RequiredValues :
        /\ run.pc = "readContract"
        /\ run' = AfterRequiredValueRead(run, requiredETH, heap, calls,
                                         walletClient)
        /\ UNCHANGED <<ledgerVars, walletClient, submitted, nonceVars, callerVars>>

\* simulateContract answers simulate(): the gas estimate is requested.
DryCallDoneSimulate ==
    \E result \in SimResults :
        /\ run.pc = "simulateContract" /\ run.op = "simulate"
        /\ run' = Calling([Answered(run, "ok") EXCEPT !.simResult = Some(result)],
                          "estimateContractGas")
        /\ UNCHANGED <<ledgerVars, walletClient, submitted, nonceVars, callerVars>>

\* simulateContract answers execute(): the request goes to
\* walletClient.writeContract.
DryCallDoneExecute ==
    /\ run.pc = "simulateContract" /\ run.op = "execute"
    /\ IF walletClient = "none"
       THEN /\ run' = Raised(Answered(run, "ok"), TypeError)
            /\ UNCHANGED submitted
       ELSE /\ run' = Calling(Answered(run, "ok"), "writeContract")
            /\ submitted' = Submit(submitted, run)
    /\ UNCHANGED <<ledgerVars, walletClient, nonceVars, callerVars>>

\* simulateContract answers executeSync() / executeRealtime(): the request
\* goes to walletClient.signTransaction.
DryCallDoneSync ==
    /\ run.pc = "simulateContract" /\ run.op \in {"executeSync", "executeRealtime"}
    /\ run' = AfterDryCallSync(run, walletClient)
    /\ UNCHANGED <<ledgerVars, walletClient, submitted, nonceVars, callerVars>>

\* estimateContractGas answers: simulate() returns.
GasEstimated ==
    \E gasEstimate \in GasEstimates :
        /\ run.pc = "estimateContractGas"
        /\ run' = Returned([Answered(run, "ok") EXCEPT
                                !.gasEstimate = Some(gasEstimate)],
                    [success |-> TRUE, results |-> Get(run.simResult),
                     gasEstimate |->
                        applyMegaethGasBuffer(gasEstimate, DefaultBufferPct)])
        /\ UNCHANGED <<ledgerVars, walletClient, submitted, nonceVars, callerVars>>

\* writeContract answers with the transaction hash: the receipt is awaited.
HashObtained ==
    \E hash \in Hashes :
        /\ run.pc = "writeContract"
        /\ run' = Calling([Answered(run, "ok") EXCEPT !.hash = Some(hash)],
                          "waitForTransactionReceipt")
        /\ UNCHANGED <<ledgerVars, walletClient, submitted, nonceVars, callerVars>>

\* signTransaction answers: the signed transaction is sent with the
\* synchronous RPC method.
Signed ==
    /\ run.pc = "signTransaction"
    /\ run' = AfterSigned(run)
    /\ submitted' = Submit(submitted, run)
    /\ UNCHANGED <<ledgerVars, walletClient, nonceVars, callerVars>>

\* A mutation of ReceiptObtained: the ledger is cleared once the batch is
\* confirmed.
ReceiptObtainedClears ==
    \E receipt \in Receipts :
        /\ run.pc = "waitForTransactionReceipt"
        /\ run' = Returned(Decoded(Answered(run, "ok")),
                           ExecutionResult(run, receipt, Len(calls)))
        /\ SetLedger(clear(Ledger))
        /\ UNCHANGED <<walletClient, submitted, nonceVars, callerVars>>

\* waitForTransactionReceipt answers: execute() decodes and returns.
ReceiptObtained ==
    \E receipt \in Receipts :
        /\ run.pc = "waitForTransactionReceipt"
        /\ run' = Returned(Decoded(Answered(run, "ok")),
                           ExecutionResult(run, receipt, Len(calls)))
        /\ UNCHANGED <<ledgerVars, walletClient, submitted, nonceVars, callerVars>>

\* The synchronous submission answers with the receipt: executeSync() /
\* executeRealtime() decode and return.
SyncReceiptObtained ==
    \E receipt \in Receipts :
        /\ run.pc \in {"eth_sendRawTransactionSync", "realtime_sendRawTransaction"}
        /\ run' = AfterSyncReceipt(run, receipt, Len(calls))
        /\ UNCHANGED <<ledgerVars, walletClient, submitted, nonceVars, callerVars>>

\* connect(walletClient)
Connect ==
    \E w \in {"noAccount", "account"} :
        /\ walletClient' = w
        /\ UNCHANGED <<ledgerVars, run, submitted, nonceVars, callerVars>>

\* disconnect()
Disconnect ==
    /\ walletClient' = "none"
    /\ UNCHANGED <<ledgerVars, run, submitted, nonceVars, callerVars>>

-----------------------------------------------------------------------------
(* executeSync and executeRealtime side by side: run is an executeSync, and *)
(* twin is the executeRealtime that is called in the same state with the    *)
(* same options and gets the same answers from the collaborators.           *)

PairStart ==
    \E options \in OptionsSet :
        /\ NoRunInFlight
        /\ run' = StartOf("executeSync", options, heap, calls, walletClient)
        /\ twin' = StartOf("executeRealtime", options, heap, calls, walletClient)
        /\ UNCHANGED <<ledgerVars, walletClient, submitted, nonceVars,
                       snapshot, decoded, popped, client>>

PairCallFails ==
    \E errorMessage \in ErrorMessages :
        /\ run.pc \notin {"idle", "done"}
        /\ run' = Failed(run, errorMessage)
        /\ twin' = Failed(twin, errorMessage)
        /\ UNCHANGED <<ledgerVars, walletClient, submitted, nonceVars,
                       snapshot, decoded, popped, client>>

PairRequiredValueRead ==
    \E requiredETH \in RequiredValues :
        /\ run.pc = "readContract"
        /\ run' = AfterRequiredValueRead(run, requiredETH, heap, calls,
                                         walletClient)
        /\ twin' = AfterRequiredValueRead(twin, requiredETH, heap, calls,
                                          walletClient)
        /\ UNCHANGED <<ledgerVars, walletClient, submitted, nonceVars,
                       snapshot, decoded, popped, client>>

PairDryCallDone ==
    /\ run.pc = "simulateContract"
    /\ run' = AfterDryCallSync(run, walletClient)
    /\ twin' = AfterDryCallSync(twin, walletClient)
    /\ UNCHANGED <<ledgerVars, walletClient, submitted, nonceVars,
                   snapshot, decoded, popped, client>>

PairSigned ==
    /\ run.pc = "signTransaction"
    /\ run' = AfterSigned(run)
    /\ twin' = AfterSigned(twin)
    /\ submitted' = Submit(submitted, run)
    /\ UNCHANGED <<ledgerVars, walletClient, nonceVars, snapshot, decoded, popped,
                   client>>

PairReceiptObtained ==
    \E receipt \in Receipts :
        /\ run.pc = "eth_sendRawTransactionSync"
        /\ run' = AfterSyncReceipt(run, receipt, Len(calls))
        /\ twin' = AfterSyncReceipt(twin, receipt, Len(calls))
        /\ UNCHANGED <<ledgerVars, walletClient, submitted, nonceVars,
                       snapshot, decoded, popped, client>>

-----------------------------------------------------------------------------
(* MegaFlowBuilder: getState, getCalls, getOperations, and what a caller   *)
(* can do with the value returned                                          *)

\* [...this.calls]: a new array of the same MegaCall objects.
getCalls(L) == L.calls

\* [...this.operations]: a new array of the records, each of which refers
\* to its MegaCall object.
getOperations(L) == L.operations

\* getState() (chainId, a constant of the builder, is left out).
getState(L) ==
    [calls |-> getCalls(L), operations |-> getOperations(L),
     totalValue |-> Some(getTotalValue(L))]

\* The heap after the caller's hold changes to snap.
Rehold(snap) ==
    LET held == IF snap = None THEN {}
                ELSE Refs(Get(snap).calls, Get(snap).operations)
    IN  [x \in DOMAIN heap \cap (Refs(calls, operations) \cup held) |-> heap[x]]

\* const s = builder.getState()
GetState ==
    /\ snapshot' = Some(getState(Ledger))
    /\ heap' = Rehold(snapshot')
    /\ UNCHANGED <<calls, operations, walletClient, run, submitted, nonceVars,
                   decoded, twin, popped, client>>

\* const s = builder.getCalls()
GetCalls ==
    /\ snapshot' = Some([calls |-> getCalls(Ledger), operations |-> <<>>,
                         totalValue |-> None])
    /\ heap' = Rehold(snapshot')
    /\ UNCHANGED <<calls, operations, walletClient, run, submitted, nonceVars,
                   decoded, twin, popped, client>>

\* const s = builder.getOperations()
GetOperations ==
    /\ snapshot' = Some([calls |-> <<>>, operations |-> getOperations(Ledger),
                         totalValue |-> None])
    /\ heap' = Rehold(snapshot')
    /\ UNCHANGED <<calls, operations, walletClient, run, submitted, nonceVars,
                   decoded, twin, popped, client>>

\* An object of the caller's own, pushed to a returned array.
ForeignObject == 0

\* s.calls.push({}), as the test of getCalls does.
SnapshotPush ==
    /\ snapshot # None
    /\ Len(Get(snapshot).calls) <= MaxExecCalls
    /\ snapshot' = Some([Get(snapshot) EXCEPT !.calls = Append(@, ForeignObject)])
    /\ UNCHANGED <<ledgerVars, walletClient, run, submitted, nonceVars,
                   decoded, twin, popped, client>>

\* s.calls.pop(); s.operations.pop()
SnapshotPop ==
    /\ snapshot # None
    /\ snapshot' = Some(pop(Get(snapshot)))
    /\ heap' = Rehold(snapshot')
    /\ UNCHANGED <<calls, operations, walletClient, run, submitted, nonceVars,
                   decoded, twin, popped, client>>

\* s.calls[i].value = value, or s.operations[i].call.value = value: an
\* assignment to a field of a MegaCall object reached through the arrays.
SnapshotSetValue ==
    \E id \in Held, value \in Values :
        /\ heap' = [heap EXCEPT ![id].value = value]
        /\ UNCHANGED <<calls, operations, walletClient, run, submitted,
                       nonceVars, callerVars>>

-----------------------------------------------------------------------------
(* The decoding functions called on their own (utils.ts exports them) *)

\* The results an ABI-encoded Result[] can decode to.
Results == { [success |-> TRUE, returnData |-> "0x"],
             [success |-> FALSE, returnData |-> "0x01"] }

DecodedResults ==
    UNION { [1 .. n -> Results] : n \in 0 .. MaxDecoded }

\* The length in characters of the hex string that encodes d as
\* (bool success, bytes returnData)[]: "0x", two words for the array, four
\* words for each entry and one more for returnData that is not empty.
EncodedLen(d) ==
    130 + SumFn([i \in DOMAIN d |->
                    256 + (IF d[i].returnData = "0x" THEN 0 ELSE 64)], DOMAIN d)

\* The rawReturnData arguments: left out, "0x", bytes that do not decode,
\* and the encodings of DecodedResults.
RawReturnDatas ==
    { None, Some([len |-> 2, decoded |-> None]),
      Some([len |-> 10, decoded |-> None]) }
    \cup { Some([len |-> EncodedLen(d), decoded |-> Some(d)]) : d \in DecodedResults }

CallCounts == 0 .. MaxCallCount

\* A log of the router's other event: it decodes, and is not CallExecuted.
BatchExecutedLog == [eventName |-> "BatchExecuted"]

\* The receipts given to parseCallResults: those of the submissions, one
\* with logs of other events only, one with two CallExecuted logs of one
\* index, and one whose CallExecuted log names an index past every call.
DecodeReceipts ==
    Receipts \cup
    { Receipt("success", <<ForeignLog, BatchExecutedLog>>),
      Receipt("success", <<CallExecutedLog(0, FALSE), BatchExecutedLog,
                           CallExecutedLog(0, TRUE), CallExecutedLog(1, TRUE),
                           CallExecutedLog(1, FALSE)>>),
      Receipt("success", <<CallExecutedLog(MaxCallCount + 2, FALSE)>>) }

\* Payloads that hold no CallFailed(index, bytes) that decodes: nothing,
\* "0x", a truncated selector, Error(string) in lower and upper case and
\* with a body that does not decode, Panic(uint256) alike, the router's
\* custom errors without arguments, and an unknown selector.
\* Panic codes: the ten the compiler emits, two others, and words too wide
\* for a double: 2^53 + 1, 2^53 + 3, 2^54 and 2^64 - 1.
KnownPanicCodes ==
    { <<0>>, <<1>>, <<1, 1>>, <<1, 2>>, <<2, 1>>, <<2, 2>>, <<3, 1>>, <<3, 2>>,
      <<4, 1>>, <<5, 1>> }

PanicCodes ==
    KnownPanicCodes \cup
    { <<2>>, <<15, 15>>,
      <<2, 0, 0, 0, 0, 0, 0, 0, 0, 0, 0, 0, 0, 1>>,
      <<2, 0, 0, 0, 0, 0, 0, 0, 0, 0, 0, 0, 0, 3>>,
      <<4, 0, 0, 0, 0, 0, 0, 0, 0, 0, 0, 0, 0, 0>>,
      [i \in 1 .. 16 |-> 15] }

FlatPayloads ==
    { Payload("", 0, Garbage), EmptyPayload, Payload("0x08c3", 6, Garbage),
      Payload("0x08c379a0", 10, Garbage),
      Payload("0x08C379A0", 202, StringBody("paused")),
      Payload("0x4e487b71", 12, Garbage),
      Payload("0xdeadbeef", 18, Garbage) }
    \cup { Payload("0x08c379a0", 138, StringBody("")) }
    \cup { Payload("0x08c379a0", 202, StringBody(m)) :
              m \in {"paused", "transfer amount exceeds balance"} }
    \cup { Payload("0x4e487b71", 74, UintBody(c)) : c \in PanicCodes }
    \cup { Payload(sel, 10, Garbage) : sel \in DOMAIN customErrors }
    \cup { Payload("0x08c379a0", 74, UintBody(<<1>>)),
           Payload("0x85d9d0b8", 74, UintBody(<<2>>)),
           Payload("0x4E487B71", 74, UintBody(<<1, 1>>)),
           Payload("0xDEADBEEF", 74, UintBody(<<1>>)),
           Payload("0x12345678", 138, StringBody("")) }

\* The encoding of CallFailed(index, inner): the selector, three words and
\* the inner bytes padded to whole words.
CallFailedPayload(head, index, inner) ==
    Payload(head, 202 + 64 * ((inner.len + 61) \div 64),
            IndexBytesBody(index, inner))

\* The payloads with CallFailed nested at most depth deep.
RECURSIVE PayloadsUpTo(_)
PayloadsUpTo(depth) ==
    IF depth = 0 THEN FlatPayloads
    ELSE LET inner == PayloadsUpTo(depth - 1)
         IN  inner \cup
             { CallFailedPayload(head, index, p) :
                 head \in {"0x85d9d0b8"}, index \in {0, 2},
                 p \in {q \in inner : q.len >= 2} }
             \cup { CallFailedPayload("0x85D9D0B8", 2, p) :
                      p \in {q \in FlatPayloads : q.len = 202} }

\* decodeRevertError(returnData)
DecodeRevertError ==
    \E returnData \in PayloadsUpTo(MaxNesting) :
        /\ decoded' = Some([fn |-> "decodeRevertError",
                            returnData |-> returnData,
                            result |-> decodeRevertError(returnData)])
        /\ UNCHANGED <<ledgerVars, walletClient, run, submitted, nonceVars,
                       snapshot, twin, popped, client>>

\* parseCallResults(receipt, callCount, rawReturnData)
ParseCallResults ==
    \E receipt \in DecodeReceipts, callCount \in CallCounts,
       rawReturnData \in RawReturnDatas :
        /\ decoded' = Some([fn |-> "parseCallResults", receipt |-> receipt,
                            callCount |-> callCount,
                            rawReturnData |-> rawReturnData,
                            result |-> parseCallResults(receipt, callCount,
                                                        rawReturnData)])
        /\ UNCHANGED <<ledgerVars, walletClient, run, submitted, nonceVars,
                       snapshot, twin, popped, client>>

-----------------------------------------------------------------------------
(* The utilities called with their arguments noted (utils.ts, builder.ts) *)

\* The arguments of buildSafeApproveCalls and of safeApprove: an allowance
\* of zero, one equal to the amount and one that differs from it.
SafeApproveArgs ==
    [token : {TOKEN_USDC, TOKEN_WETH}, spender : {DEX_ROUTER},
     amount : 0 .. 2, currentAllowance : 0 .. 2]

\* buildSafeApproveCalls(params)
BuildSafeApproveCalls ==
    \E params \in SafeApproveArgs :
        /\ decoded' = Some([fn |-> "buildSafeApproveCalls", params |-> params,
                            result |-> buildSafeApproveCalls(
                                           params.token, params.spender,
                                           params.amount,
                                           params.currentAllowance)])
        /\ UNCHANGED <<ledgerVars, walletClient, run, submitted, nonceVars,
                       snapshot, twin, popped, client>>

\* builder.safeApprove(token, spender, amount, currentAllowance)
SafeApproveWith ==
    \E params \in SafeApproveArgs :
        /\ decoded' = Some([fn |-> "safeApprove", params |-> params,
                            result |-> <<>>])
        /\ SetLedger(safeApprove(Ledger, params.token, params.spender,
                                 params.amount, params.currentAllowance))
        /\ Len(calls') <= MaxCalls
        /\ UNCHANGED <<walletClient, run, submitted, nonceVars, snapshot, twin,
                       popped, client>>

\* Gas estimates and buffer percentages: products that are and are not
\* multiples of 100, and the parameter left out.
BufferEstimates == {0, 1, 9, 15, 100000}
BufferPcts == {None, Some(0), Some(10), Some(30), Some(33)}

\* applyMegaethGasBuffer(estimate) or applyMegaethGasBuffer(estimate, bufferPct)
ApplyMegaethGasBuffer ==
    \E estimate \in BufferEstimates, bufferPct \in BufferPcts :
        /\ decoded' = Some([fn |-> "applyMegaethGasBuffer",
                            estimate |-> estimate, bufferPct |-> bufferPct,
                            result |-> applyMegaethGasBuffer(estimate,
                                          IF bufferPct = None
                                          THEN DefaultBufferPct
                                          ELSE Get(bufferPct))])
        /\ UNCHANGED <<ledgerVars, walletClient, run, submitted, nonceVars,
                       snapshot, twin, popped, client>>

-----------------------------------------------------------------------------
(* MegaFlowClient: aggregate token reads (client.ts) *)

Owners == {USER, RECIPIENT}
Balances == {0, 1, 2}

\* The token lists a caller passes, a token twice included.
TokenLists ==
    UNION { [1 .. n -> {TOKEN_USDC, TOKEN_WETH}] : n \in 0 .. MaxTokens }

\* What multicall resolves to: for every contract read, in order, its result
\* or its failure (allowFailure is left at its default).
MulticallEntries ==
    { [status |-> "success", result |-> Some(b)] : b \in Balances }
        \cup { [status |-> "failure", result |-> None] }

MulticallResults(n) == [1 .. n -> MulticallEntries]

\* tokens.map((token) => ({ address: token, ..., args: [owner] }))
balanceOfContracts(tokens, owner) ==
    [i \in DOMAIN tokens |->
        [address |-> tokens[i], functionName |-> "balanceOf", args |-> <<owner>>]]

\* A mutation of balancesOf: the reads that failed are left out.
balancesOfSkipsFailed(tokens, results) ==
    LET ok == SelectSeq([i \in DOMAIN tokens |-> i],
                        LAMBDA i : results[i].status = "success")
    IN  [j \in DOMAIN ok |->
            [token |-> tokens[ok[j]], balance |-> Get(results[ok[j]].result)]]

\* tokens.map((token, i) => ({ token, balance: results[i].status ===
\* 'success' ? results[i].result : 0n }))
balancesOf(tokens, results) ==
    [i \in DOMAIN tokens |->
        [token |-> tokens[i],
         balance |-> IF results[i].status = "success"
                     THEN Get(results[i].result) ELSE 0]]

\* getMultipleBalances(tokens, owner), up to its await of multicall.
GetMultipleBalancesCall ==
    \E tokens \in TokenLists, owner \in Owners :
        /\ IF decoded = None THEN TRUE
           ELSE Get(decoded).fn = "getMultipleBalances" =>
                   Get(decoded).pc = "done"
        /\ decoded' = Some([fn |-> "getMultipleBalances", tokens |-> tokens,
                            owner |-> owner,
                            contracts |-> balanceOfContracts(tokens, owner),
                            pc |-> "multicall", results |-> None,
                            outcome |-> "none", result |-> <<>>])
        /\ UNCHANGED <<ledgerVars, walletClient, run, submitted, nonceVars,
                       snapshot, twin, popped, client>>

\* multicall resolves: getMultipleBalances returns.
MulticallAnswered ==
    /\ decoded # None /\ Get(decoded).fn = "getMultipleBalances"
    /\ Get(decoded).pc = "multicall"
    /\ \E results \in MulticallResults(Len(Get(decoded).contracts)) :
          decoded' = Some([Get(decoded) EXCEPT
                              !.pc = "done", !.results = Some(results),
                              !.outcome = "returned",
                              !.result = balancesOf(Get(decoded).tokens, results)])
    /\ UNCHANGED <<ledgerVars, walletClient, run, submitted, nonceVars,
                   snapshot, twin, popped, client>>

\* multicall rejects (the transport fails): the rejection reaches the caller.
MulticallFails ==
    /\ decoded # None /\ Get(decoded).fn = "getMultipleBalances"
    /\ Get(decoded).pc = "multicall"
    /\ decoded' = Some([Get(decoded) EXCEPT !.pc = "done", !.outcome = "raised"])
    /\ UNCHANGED <<ledgerVars, walletClient, run, submitted, nonceVars,
                   snapshot, twin, popped, client>>

-----------------------------------------------------------------------------
(* MegaFlowBuilder.kyberSwap and the KyberSwap helpers (builder.ts, utils.ts) *)

\* What fetch resolves to and res.json() holds: the HTTP status (res.ok),
\* the application code and the data.
KyberResponse(ok, code, data) == [ok |-> ok, code |-> code, data |-> data]

KyberRoute == [routeSummary |-> "route"]
KyberBuilt(value) == [routerAddress |-> DEX_ROUTER, data |-> "0xe21fd0e9",
                      value |-> value]

QuoteResponses ==
    { KyberResponse(FALSE, 0, KyberRoute), KyberResponse(TRUE, 1, KyberRoute),
      KyberResponse(TRUE, 0, KyberRoute) }

BuildResponses ==
    { KyberResponse(FALSE, 0, KyberBuilt("0")),
      KyberResponse(TRUE, 1, KyberBuilt("0")) }
    \cup { KyberResponse(TRUE, 0, KyberBuilt(value)) : value \in {"0", "1"} }

\* BigInt(built.value) on the decimal strings the build answers carry.
BigInt(value) == CASE value = "0" -> 0 [] value = "1" -> 1

\* A mutation of getKyberQuote: the application code is not looked at.
getKyberQuoteIgnoresCode(res) ==
    IF ~res.ok THEN None ELSE Some(res.data.routeSummary)

\* getKyberQuote after its fetch: it throws unless res.ok and json.code is
\* 0, and returns json.data.routeSummary otherwise.
getKyberQuote(res) ==
    IF ~res.ok THEN None
    ELSE IF res.code # 0 THEN None
    ELSE Some(res.data.routeSummary)

\* buildKyberSwap after its fetch: it throws unless res.ok and json.code is
\* 0, and returns json.data otherwise.
buildKyberSwap(res) ==
    IF ~res.ok THEN None
    ELSE IF res.code # 0 THEN None
    ELSE Some(res.data)

KyberIdle ==
    IF decoded = None THEN TRUE
    ELSE Get(decoded).fn = "kyberSwap" /\ Get(decoded).pc = "done"

\* kyberSwap(params, sender), up to the fetch of getKyberQuote.
KyberSwapCall ==
    /\ KyberIdle
    /\ decoded' = Some([fn |-> "kyberSwap", pc |-> "getKyberQuote",
                        quote |-> None, build |-> None, outcome |-> "none"])
    /\ UNCHANGED <<ledgerVars, walletClient, run, submitted, nonceVars,
                   snapshot, twin, popped, client>>

\* The routes request answers: kyberSwap raises or requests the build.
KyberQuoteAnswered ==
    \E res \in QuoteResponses :
        /\ decoded # None /\ Get(decoded).fn = "kyberSwap"
        /\ Get(decoded).pc = "getKyberQuote"
        /\ decoded' = Some(IF getKyberQuote(res) = None
                           THEN [Get(decoded) EXCEPT !.pc = "done",
                                    !.quote = Some(res), !.outcome = "raised"]
                           ELSE [Get(decoded) EXCEPT !.pc = "buildKyberSwap",
                                    !.quote = Some(res)])
        /\ UNCHANGED <<ledgerVars, walletClient, run, submitted, nonceVars,
                       snapshot, twin, popped, client>>

\* The build request answers: kyberSwap raises, or adds the built call and
\* returns.
KyberBuildAnswered ==
    \E res \in BuildResponses :
        /\ decoded # None /\ Get(decoded).fn = "kyberSwap"
        /\ Get(decoded).pc = "buildKyberSwap"
        /\ LET built == buildKyberSwap(res)
           IN  IF built = None
               THEN /\ decoded' = Some([Get(decoded) EXCEPT !.pc = "done",
                                           !.build = Some(res),
                                           !.outcome = "raised"])
                    /\ UNCHANGED ledgerVars
               ELSE /\ decoded' = Some([Get(decoded) EXCEPT !.pc = "done",
                                           !.build = Some(res),
                                           !.outcome = "returned"])
                    /\ SetLedger(add(Ledger, Get(built).routerAddress,
                                     RawData(Get(built).data),
                                     BigInt(Get(built).value)))
                    /\ Len(calls') <= MaxCalls
        /\ UNCHANGED <<walletClient, run, submitted, nonceVars, snapshot, twin,
                       popped, client>>

-----------------------------------------------------------------------------
(* MegaFlowClient.batch and the builders it returns (client.ts, builder.ts) *)

\* A client after construction without a wallet.  arrays holds every array
\* a builder field refers to, with the call objects written out, and
\* builders the builders batch() has returned, each with the arrays its
\* calls and operations fields refer to.
MegaFlowClient ==
    [walletClient |-> "none", arrays |-> <<>>, builders |-> <<>>]

\* A mutation of newMegaFlowBuilder: the arrays are those of the first
\* builder, as if the fields were initialised once for the class.
newMegaFlowBuilderSharedArrays(c) ==
    IF c.builders = <<>>
    THEN [c EXCEPT !.arrays = @ \o <<<<>>, <<>>>>,
                   !.builders = Append(@, [calls |-> Len(c.arrays) + 1,
                                           operations |-> Len(c.arrays) + 2,
                                           walletClient |-> "none"])]
    ELSE [c EXCEPT !.builders = Append(@, [calls |-> c.builders[1].calls,
                                           operations |-> c.builders[1].operations,
                                           walletClient |-> "none"])]

\* new MegaFlowBuilder(config): the field initialisers `calls = []` and
\* `operations = []` make two new arrays, and no wallet is connected.
newMegaFlowBuilder(c) ==
    [c EXCEPT !.arrays = @ \o <<<<>>, <<>>>>,
              !.builders = Append(@, [calls |-> Len(c.arrays) + 1,
                                      operations |-> Len(c.arrays) + 2,
                                      walletClient |-> "none"])]

\* batch(): a new builder, connected to this.walletClient if there is one.
batch(c) ==
    LET c1 == newMegaFlowBuilder(c)
        b == Len(c1.builders)
    IN  IF c.walletClient # "none"
        THEN [c1 EXCEPT !.builders[b].walletClient = c.walletClient]
        ELSE c1

\* What builder b shows of its ledger: the queued calls and the records.
ContentsOf(c, b) ==
    [calls |-> c.arrays[c.builders[b].calls],
     operations |-> c.arrays[c.builders[b].operations]]

\* The ledger of builder b: what its calls and operations fields refer to,
\* the call objects numbered in the order of the calls array.
LedgerOf(c, b) ==
    LET cs == ContentsOf(c, b).calls
        ops == ContentsOf(c, b).operations
    IN  [heap |-> cs, calls |-> [i \in DOMAIN cs |-> i],
         operations |-> [i \in DOMAIN ops |-> [ops[i] EXCEPT !.call = i]]]

\* Builder b after one of its methods left the ledger L: the methods write
\* through the builder's two fields.
StoreLedger(c, b, L) ==
    [c EXCEPT !.arrays =
        [@ EXCEPT ![c.builders[b].calls] = CallValues(L.heap, L.calls),
                  ![c.builders[b].operations] =
                      [i \in DOMAIN L.operations |->
                          [L.operations[i] EXCEPT !.call = L.heap[@]]]]]

\* client.connect(walletClient)
ClientConnect ==
    \E w \in {"noAccount", "account"} :
        /\ client' = [client EXCEPT !.walletClient = w]
        /\ UNCHANGED <<ledgerVars, walletClient, run, submitted, nonceVars,
                       snapshot, decoded, twin, popped>>

\* const builder = client.batch()
Batch ==
    /\ Len(client.builders) < MaxBuilders
    /\ client' = batch(client)
    /\ UNCHANGED <<ledgerVars, walletClient, run, submitted, nonceVars,
                   snapshot, decoded, twin, popped>>

\* builder.add(target, callData, value) on one of the client's builders
BuilderAdd ==
    \E b \in DOMAIN client.builders, target \in {TOKEN_USDC, DEX_ROUTER} :
        /\ Len(LedgerOf(client, b).calls) < MaxExecCalls
        /\ client' = StoreLedger(client, b,
                        add(LedgerOf(client, b), target, RawData("0xdeadbeef"), 0))
        /\ UNCHANGED <<ledgerVars, walletClient, run, submitted, nonceVars,
                       snapshot, decoded, twin, popped>>

\* builder.pop() on one of the client's builders
BuilderPop ==
    \E b \in DOMAIN client.builders :
        /\ client' = StoreLedger(client, b, pop(LedgerOf(client, b)))
        /\ UNCHANGED <<ledgerVars, walletClient, run, submitted, nonceVars,
                       snapshot, decoded, twin, popped>>

\* Builder b with two new arrays in its fields (`this.calls = []` and
\* `this.operations = []`): they take the least places no other builder's
\* field refers to, so an array nothing refers to any more is gone.
NewArrays(c, b) ==
    LET others == UNION { {c.builders[x].calls, c.builders[x].operations} :
                          x \in DOMAIN c.builders \ {b} }
        free == (1 .. Len(c.arrays) + 2) \ others
        id1 == CHOOSE n \in free : \A m \in free : n <= m
        id2 == CHOOSE n \in free \ {id1} : \A m \in free \ {id1} : n <= m
    IN  [c EXCEPT !.builders[b].calls = id1, !.builders[b].operations = id2,
                  !.arrays = [i \in 1 .. Max(Len(c.arrays), id2) |->
                                 IF i \in {id1, id2} THEN <<>> ELSE c.arrays[i]]]

\* builder.clear() on one of the client's builders
BuilderClear ==
    \E b \in DOMAIN client.builders :
        /\ client' = StoreLedger(NewArrays(client, b), b,
                                 clear(LedgerOf(client, b)))
        /\ UNCHANGED <<ledgerVars, walletClient, run, submitted, nonceVars,
                       snapshot, decoded, twin, popped>>

-----------------------------------------------------------------------------
(* chunkCalls (utils.ts) *)

\* Array.prototype.slice(start, end) with zero-based bounds: a negative
\* bound counts from the end, both are clamped to the array, and the result
\* is empty when end is not beyond start.
slice(arr, start, end) ==
    LET len == Len(arr)
        k == IF start < 0 THEN Max(len + start, 0) ELSE IF start > len THEN len ELSE start
        final == IF end < 0 THEN Max(len + end, 0) ELSE IF end > len THEN len ELSE end
    IN  SubSeq(arr, k + 1, final)

ChunkItems == {TOKEN_USDC, DEX_ROUTER}

ChunkInputs == UNION { [1 .. n -> ChunkItems] : n \in 0 .. MaxCalls }

ChunkSizes == -1 .. MaxCalls

\* chunkCalls(calls, maxPerBatch), up to the loop: chunks is empty and i is 0.
ChunkCallsCall ==
    \E cs \in ChunkInputs, maxPerBatch \in ChunkSizes :
        /\ IF decoded = None THEN TRUE
           ELSE Get(decoded).fn = "chunkCalls" /\ Get(decoded).pc = "done"
        /\ decoded' = Some([fn |-> "chunkCalls", calls |-> cs,
                            maxPerBatch |-> maxPerBatch, i |-> 0,
                            chunks |-> <<>>, pc |-> "for"])
        /\ UNCHANGED <<ledgerVars, walletClient, run, submitted, nonceVars,
                       snapshot, twin, popped, client>>

\* One turn of the loop: i < calls.length, the slice is pushed and
\* maxPerBatch is added to i.
ChunkCallsLoop ==
    /\ decoded # None /\ Get(decoded).fn = "chunkCalls"
    /\ Get(decoded).pc = "for"
    /\ Get(decoded).i < Len(Get(decoded).calls)
    /\ Len(Get(decoded).chunks) < MaxChunks
    /\ LET c == Get(decoded)
       IN  decoded' = Some([c EXCEPT
                !.chunks = Append(@, slice(c.calls, c.i, c.i + c.maxPerBatch)),
                !.i = @ + c.maxPerBatch])
    /\ UNCHANGED <<ledgerVars, walletClient, run, submitted, nonceVars,
                   snapshot, twin, popped, client>>

\* The loop ends when i has reached calls.length: chunks is returned.
ChunkCallsReturn ==
    /\ decoded # None /\ Get(decoded).fn = "chunkCalls"
    /\ Get(decoded).pc = "for"
    /\ ~(Get(decoded).i < Len(Get(decoded).calls))
    /\ decoded' = Some([Get(decoded) EXCEPT !.pc = "done"])
    /\ UNCHANGED <<ledgerVars, walletClient, run, submitted, nonceVars,
                   snapshot, twin, popped, client>>

-----------------------------------------------------------------------------
(* Specifications *)

Init ==
    /\ heap = <<>>
    /\ calls = <<>>
    /\ operations = <<>>
    /\ walletClient = "none"
    /\ run = IdleRun
    /\ submitted = <<>>
    /\ nonceCache = <<>>
    /\ inflight = [a \in Addresses |-> 0]
    /\ issued = [k \in Keys |-> <<>>]
    /\ sinceReset = [k \in Keys |-> <<>>]
    /\ snapshot = None
    /\ decoded = None
    /\ twin = IdleRun
    /\ popped = <<>>
    /\ client = MegaFlowClient

nonLedgerVars == <<walletClient, run, submitted, nonceVars, callerVars>>

\* The call ledger: every builder method that appends, pop and clear.
LedgerNext ==
    \/ Add(MaxCalls, Values) /\ UNCHANGED nonLedgerVars
    \/ SendETH(MaxCalls) /\ UNCHANGED nonLedgerVars
    \/ Approve(MaxCalls) /\ UNCHANGED nonLedgerVars
    \/ SafeApprove(MaxCalls) /\ UNCHANGED nonLedgerVars
    \/ MultiTransfer(MaxCalls) /\ UNCHANGED nonLedgerVars
    \/ WrapETH(MaxCalls) /\ UNCHANGED nonLedgerVars
    \/ UnwrapWETH(MaxCalls) /\ UNCHANGED nonLedgerVars
    \/ SwapExactTokensForTokens(MaxCalls) /\ UNCHANGED nonLedgerVars
    \/ ApproveAndSwap(MaxCalls) /\ UNCHANGED nonLedgerVars
    \/ Pop /\ UNCHANGED nonLedgerVars
    \/ Clear /\ UNCHANGED nonLedgerVars

SpecLedger == Init /\ [][LedgerNext]_vars

\* The nonce cache of one client session.
NonceNext ==
    \/ GetNextNonceCall
    \/ GetNextNonceReturn
    \/ GetNextNonceFail
    \/ ResetNonce

SpecNonce == Init /\ [][NonceNext]_vars

\* One builder: its terminal operations, with the wallet and the ledger
\* changing while an operation is suspended.
ExecNext ==
    \/ StartRun
    \/ StartCalculateRequiredETH
    \/ CallFails
    \/ RequiredValueRead
    \/ DryCallDoneSimulate
    \/ DryCallDoneExecute
    \/ DryCallDoneSync
    \/ GasEstimated
    \/ HashObtained
    \/ Signed
    \/ ReceiptObtained
    \/ SyncReceiptObtained
    \/ Connect
    \/ Disconnect
    \/ Add(MaxExecCalls, ExecValues) /\ UNCHANGED nonLedgerVars
    \/ Pop /\ UNCHANGED nonLedgerVars
    \/ Clear /\ UNCHANGED nonLedgerVars

SpecExec == Init /\ [][ExecNext]_vars

\* executeSync and executeRealtime on the same inputs, with the wallet and
\* the ledger changing while they are suspended.
PairNext ==
    \/ PairStart
    \/ PairCallFails
    \/ PairRequiredValueRead
    \/ PairDryCallDone
    \/ PairSigned
    \/ PairReceiptObtained
    \/ Connect
    \/ Disconnect
    \/ Add(MaxExecCalls, ExecValues) /\ UNCHANGED nonLedgerVars
    \/ Pop /\ UNCHANGED nonLedgerVars
    \/ Clear /\ UNCHANGED nonLedgerVars

SpecPair == Init /\ [][PairNext]_vars

\* One builder and a caller that inspects it.
SnapshotNext ==
    \/ Add(MaxExecCalls, Values) /\ UNCHANGED nonLedgerVars
    \/ Pop /\ UNCHANGED nonLedgerVars
    \/ Clear /\ UNCHANGED nonLedgerVars
    \/ GetState
    \/ GetCalls
    \/ GetOperations
    \/ SnapshotPush
    \/ SnapshotPop
    \/ SnapshotSetValue

SpecSnapshot == Init /\ [][SnapshotNext]_vars

\* pop() with its return value, after the appending methods and clear.
PopNext ==
    \/ Add(MaxExecCalls, Values) /\ UNCHANGED nonLedgerVars
    \/ SafeApprove(MaxExecCalls) /\ UNCHANGED nonLedgerVars
    \/ Clear /\ UNCHANGED nonLedgerVars
    \/ PopAndKeep

SpecPop == Init /\ [][PopNext]_vars

\* The safe approve helper and the builder method on top of it.
ApproveNext ==
    \/ Add(MaxExecCalls, Values) /\ UNCHANGED nonLedgerVars
    \/ Clear /\ UNCHANGED nonLedgerVars
    \/ BuildSafeApproveCalls
    \/ SafeApproveWith

SpecApprove == Init /\ [][ApproveNext]_vars

\* The gas buffer by itself and in simulate().
GasNext ==
    \/ Add(MaxExecCalls, ExecValues) /\ UNCHANGED nonLedgerVars
    \/ StartSimulate
    \/ CallFails
    \/ RequiredValueRead
    \/ DryCallDoneSimulate
    \/ GasEstimated
    \/ ApplyMegaethGasBuffer

SpecGas == Init /\ [][GasNext]_vars

\* The aggregate balance read.
BalancesNext ==
    \/ GetMultipleBalancesCall
    \/ MulticallAnswered
    \/ MulticallFails

SpecBalances == Init /\ [][BalancesNext]_vars

\* kyberSwap, with the ledger changing while it is suspended.
KyberNext ==
    \/ Add(MaxExecCalls, Values) /\ UNCHANGED nonLedgerVars
    \/ Clear /\ UNCHANGED nonLedgerVars
    \/ KyberSwapCall
    \/ KyberQuoteAnswered
    \/ KyberBuildAnswered

SpecKyber == Init /\ [][KyberNext]_vars

\* One client, its wallet and the builders it hands out.
ClientNext ==
    \/ ClientConnect
    \/ Batch
    \/ BuilderAdd
    \/ BuilderPop
    \/ BuilderClear

SpecClient == Init /\ [][ClientNext]_vars

\* chunkCalls on any list and any chunk size.
ChunkNext ==
    \/ ChunkCallsCall
    \/ ChunkCallsLoop
    \/ ChunkCallsReturn

SpecChunk == Init /\ [][ChunkNext]_vars

\* The decoding functions, applied to any of their inputs.
DecodeNext ==
    \/ ParseCallResults
    \/ DecodeRevertError

SpecDecode == Init /\ [][DecodeNext]_vars

Next ==
    \/ LedgerNext \/ NonceNext \/ ExecNext \/ PairNext \/ SnapshotNext
    \/ PopNext \/ ApproveNext \/ GasNext \/ BalancesNext \/ KyberNext
    \/ ClientNext \/ ChunkNext
    \/ DecodeNext

Spec == Init /\ [][Next]_vars


-----------------------------------------------------------------------------
(* The call ledger *)

\* C1: the number of queued calls equals the number of operation records,
\* and the i-th operation record refers to the i-th queued call (the same
\* object), after any sequence of the appending methods, pop and clear.
C1_CallsMatchRecords ==
    /\ Len(calls) = Len(operations)
    /\ \A i \in DOMAIN calls : operations[i].call = calls[i]

\* A safeApprove that queued two calls (reset, then set), followed by a raw
\* add, in a full ledger.
C1_Witness ==
    /\ Len(calls) = MaxCalls
    /\ operations[1].type = "safeApprove"
    /\ operations[2].type = "safeApprove"
    /\ heap[calls[1]].callData.args[2] = 0
    /\ operations[Len(calls)].type = "custom"

-----------------------------------------------------------------------------
(* The nonce cache *)

\* C2: of two consecutive getNextNonce returns for one address with no
\* resetNonce between them, the second is strictly greater than the first.
C2_ConsecutiveNoncesIncrease ==
    \A k \in Keys : \A i \in 1 .. (Len(sinceReset[k]) - 1) :
        sinceReset[k][i].nonce < sinceReset[k][i + 1].nonce

\* Two calls made one after the other, to both of which the network
\* reported the same pending nonce.
C2_Witness ==
    \E k \in Keys :
        /\ Len(sinceReset[k]) >= 2
        /\ ~sinceReset[k][1].overlap
        /\ sinceReset[k][1].network = sinceReset[k][2].network

\* C3: getNextNonce calls that are in flight at once return pairwise
\* different nonces when no resetNonce occurs, and the cache entry is the
\* nonce returned last (no call worked from a stale read of the entry).
C3_ConcurrentNoncesDistinct ==
    \A k \in Keys :
        /\ \A i, j \in DOMAIN sinceReset[k] :
              i # j => sinceReset[k][i].nonce # sinceReset[k][j].nonce
        /\ sinceReset[k] # <<>> =>
              /\ k \in DOMAIN nonceCache
              /\ nonceCache[k] = Last(sinceReset[k]).nonce

\* Two calls for one key were suspended together, and both have returned;
\* the network answered the later one with a smaller nonce.
C3_Witness ==
    \E k \in Keys :
        /\ Len(sinceReset[k]) >= 2
        /\ sinceReset[k][1].overlap
        /\ sinceReset[k][2].network < sinceReset[k][1].network

\* C4, as claimed: every nonce returned for an address is strictly greater
\* than every nonce returned for it before, whatever resetNonce calls are
\* interleaved.
C4_NoncesIncreaseAcrossResets ==
    \A k \in Keys : \A i, j \in DOMAIN issued[k] :
        i < j => issued[k][i] < issued[k][j]

\* C4, amended: every nonce returned for an address is strictly greater
\* than every nonce returned for it since the latest resetNonce of that
\* address (sinceReset is the tail of issued that follows that reset).
C4_NoncesIncreaseSinceReset ==
    \A k \in Keys :
        /\ \A i, j \in DOMAIN sinceReset[k] :
              i < j => sinceReset[k][i].nonce < sinceReset[k][j].nonce
        /\ Len(sinceReset[k]) <= Len(issued[k])
        /\ \A i \in DOMAIN sinceReset[k] :
              sinceReset[k][i].nonce =
                  issued[k][Len(issued[k]) - Len(sinceReset[k]) + i]

\* A nonce was returned, the address was reset, and two more were returned.
C4_Witness ==
    \E k \in Keys :
        /\ Len(sinceReset[k]) >= 2
        /\ Len(issued[k]) > Len(sinceReset[k])

-----------------------------------------------------------------------------
(* Submission and the nonce cache *)

\* C5: a batch submitted by execute, executeSync or executeRealtime with no
\* nonce option carries a nonce that the client's nonce cache issued, and
\* two such batches submitted one after the other carry different nonces.
C5_BatchNoncesFromCache ==
    /\ \A i \in DOMAIN submitted :
          /\ submitted[i] # None
          /\ \E k \in Keys : \E j \in DOMAIN issued[k] :
                issued[k][j] = Get(submitted[i])
    /\ Len(submitted) = 2 => submitted[1] # submitted[2]

-----------------------------------------------------------------------------
(* simulate *)

\* C6: simulate raises only from its precondition check.  When the
\* required-value read, the dry call or the gas estimate fails, simulate
\* returns success = FALSE with the text of the error, the reason decoded
\* from that text and the call index found in it, and the failing call is
\* the last collaborator call of the run.
C6_SimulateReturnsFailures ==
    run.op = "simulate" =>
        /\ run.outcome = "raised" => run.log = <<>>
        /\ \A i \in 1 .. (Len(run.log) - 1) : run.log[i].res = "ok"
        /\ (run.log # <<>> /\ Last(run.log).res = "fail") =>
              /\ run.pc = "done"
              /\ run.outcome = "returned"
              /\ Last(run.log).call \in
                    {"readContract", "simulateContract", "estimateContractGas"}
              /\ LET result == Get(run.result)
                     text == result.error
                 IN  /\ result.success = FALSE
                     /\ text \in {m.text : m \in ErrorMessages}
                     /\ text = "timeout" =>
                           /\ result.revertReason = "Execution reverted with no data"
                           /\ result.failedCallIndex = None
                     /\ text = "0x08c379a0<paused>" =>
                           result.revertReason = "Reverted: paused"
                     /\ text = "execution reverted" =>
                           result.revertReason =
                               "Reverted with unknown selector execution "
                     /\ text = "CallFailed(1, 0x)" =>
                           /\ result.revertReason =
                                 "Reverted with unknown selector callfailed"
                           /\ result.failedCallIndex = Some(1)

\* simulate returned a failure after the read and the dry call succeeded and
\* the gas estimate failed with an Error(string) payload as its message.
C6_Witness ==
    /\ run.op = "simulate"
    /\ run.outcome = "returned"
    /\ Len(run.log) = 3
    /\ run.log[3] = [call |-> "estimateContractGas", res |-> "fail"]
    /\ Get(run.result).success = FALSE
    /\ Get(run.result).revertReason = "Reverted: paused"

-----------------------------------------------------------------------------
(* execute, executeSync, executeRealtime *)

\* C7: when the submitted batch transaction reverts on-chain, execute,
\* executeSync and executeRealtime raise: none of them returns a receipt
\* whose status is "reverted" together with per-call results.
C7_RevertNeverReturned ==
    (run.op \in ExecOps /\ run.outcome = "returned") =>
        Get(run.result).receipt.status # "reverted"

\* C8: execute, executeSync and executeRealtime check, before any
\* collaborator call, the ledger (EMPTY_BATCH), then the wallet
\* (WALLET_NOT_CONNECTED), then its account (NO_ACCOUNT); a failed check
\* raises with nothing read, simulated, signed or sent and with the ledger
\* unchanged, and with all three satisfied the required-value read starts.
C8_PreconditionsFailFast ==
    [][(NoRunInFlight /\ run' # run /\ run'.op \in ExecOps) =>
          /\ calls = <<>> =>
                /\ run'.outcome = "raised"
                /\ run'.error = Some(MegaFlowError("EMPTY_BATCH"))
          /\ (calls # <<>> /\ walletClient = "none") =>
                /\ run'.outcome = "raised"
                /\ run'.error = Some(MegaFlowError("WALLET_NOT_CONNECTED"))
          /\ (calls # <<>> /\ walletClient = "noAccount") =>
                /\ run'.outcome = "raised"
                /\ run'.error = Some(MegaFlowError("NO_ACCOUNT"))
          /\ (calls # <<>> /\ walletClient = "account") =>
                /\ run'.outcome = "none"
                /\ run'.log = <<[call |-> "readContract", res |-> "pending"]>>
          /\ run'.outcome = "raised" =>
                /\ run'.pc = "done"
                /\ run'.log = <<>>
                /\ run'.request = None
                /\ run'.hash = None
                /\ run'.result = None
                /\ UNCHANGED <<ledgerVars, submitted>>
       ]_vars

\* executeRealtime was called on an empty ledger with no wallet connected:
\* the ledger check came first.
C8_Witness ==
    /\ run.op = "executeRealtime"
    /\ run.outcome = "raised"
    /\ run.error = Some(MegaFlowError("EMPTY_BATCH"))
    /\ run.log = <<>>
    /\ calls = <<>>
    /\ walletClient = "none"

\* C9: simulate on an empty ledger raises the MegaFlowError EMPTY_BATCH; it
\* returns no value and makes no collaborator call.
C9_SimulateEmptyRaises ==
    [][(NoRunInFlight /\ run' # run /\ run'.op = "simulate" /\ calls = <<>>) =>
          /\ run'.pc = "done"
          /\ run'.outcome = "raised"
          /\ run'.error = Some(MegaFlowError("EMPTY_BATCH"))
          /\ run'.result = None
          /\ run'.log = <<>>
          /\ UNCHANGED <<ledgerVars, submitted>>
       ]_vars

\* simulate was called on an empty ledger and has raised.
C9_Witness ==
    /\ run.op = "simulate"
    /\ run.outcome = "raised"
    /\ run.error = Some(MegaFlowError("EMPTY_BATCH"))
    /\ run.result = None
    /\ calls = <<>>

\* C10: the collaborator calls of a run of execute are a prefix of: the
\* required-value read, the dry call, writeContract,
\* waitForTransactionReceipt, the decoding of the results.  Every call
\* before the last one made has succeeded (so writeContract follows a
\* successful dry call and a failed step is the last), the hash is there
\* once the receipt wait has started, and execute returns only after all
\* five.
C10_ExecuteOrder ==
    run.op = "execute" =>
        LET order == <<"readContract", "simulateContract", "writeContract",
                       "waitForTransactionReceipt", "parseCallResults">>
        IN  /\ Len(run.log) <= Len(order)
            /\ \A i \in DOMAIN run.log : run.log[i].call = order[i]
            /\ \A i \in 1 .. (Len(run.log) - 1) : run.log[i].res = "ok"
            /\ (run.log # <<>> /\ Last(run.log).res = "fail") =>
                  run.pc = "done" /\ run.outcome = "raised"
            /\ Len(run.log) >= 4 => run.hash # None
            /\ run.hash # None => Len(run.log) >= 4
            /\ run.outcome = "returned" =>
                  /\ Len(run.log) = 5
                  /\ Get(run.result).hash = run.hash

\* execute has run through all five steps and returned.
C10_Witness ==
    /\ run.op = "execute"
    /\ run.outcome = "returned"
    /\ Len(run.log) = 5
    /\ \A i \in DOMAIN run.log : run.log[i].res = "ok"

-----------------------------------------------------------------------------
(* The decoding functions *)

\* C11: parseCallResults returns exactly callCount entries for every
\* receipt and every rawReturnData, whichever strategy produces the result.
C11_ExactlyCallCountResults ==
    (decoded # None /\ Get(decoded).fn = "parseCallResults") =>
        Len(Get(decoded).result) = Get(decoded).callCount

-----------------------------------------------------------------------------
(* Snapshots of the ledger *)

\* C12: no mutation of a value returned by getState, getCalls or
\* getOperations (a push to or a pop from its arrays, an assignment to a
\* field of a call object in it) changes the builder's queued calls, its
\* operation records or getTotalValue().
C12_SnapshotsNeverAlias ==
    [][(SnapshotPush \/ SnapshotPop \/ SnapshotSetValue) =>
          /\ calls' = calls
          /\ operations' = operations
          /\ CallValues(heap', calls') = CallValues(heap, calls)
          /\ getTotalValue(Ledger)' = getTotalValue(Ledger)
       ]_vars

\* C13: getTotalValue() is the sum of the value fields of the queued calls
\* (0 for an empty ledger), and the totalValue of getState() is the sum over
\* the calls of that same getState().
C13_TotalValueIsSum ==
    LET valueOf == [id \in DOMAIN heap |-> heap[id].value]
        state == getState(Ledger)
    IN  /\ getTotalValue(Ledger) =
              SumFn([i \in DOMAIN calls |-> valueOf[calls[i]]], DOMAIN calls)
        /\ calls = <<>> => getTotalValue(Ledger) = 0
        /\ state.totalValue =
              Some(SumFn([i \in DOMAIN state.calls |-> valueOf[state.calls[i]]],
                         DOMAIN state.calls))

\* A full ledger that holds a call with no value and a call with value 2.
C13_Witness ==
    /\ Len(calls) = MaxCalls
    /\ \E i, j \in DOMAIN calls :
          heap[calls[i]].value = 0 /\ heap[calls[j]].value = 2
    /\ getTotalValue(Ledger) >= 3

-----------------------------------------------------------------------------
(* The builder after a submission *)

\* C14, as claimed: once execute, executeSync or executeRealtime has
\* submitted the batch, no append, pop or clear takes effect on the builder
\* and no second submission is made from it.
C14_NoReuseAfterSubmission ==
    [][submitted # <<>> =>
          /\ calls' = calls
          /\ operations' = operations
          /\ submitted' = submitted
       ]_vars

\* C14, amended: the builder keeps no record of a submission.  After one,
\* execute, executeSync and executeRealtime start under the same
\* preconditions as before (a non-empty ledger and a wallet with an account
\* lead to the required-value read), and a change of the ledger is an
\* append of one call with its record, a pop of the last one, or a clear.
C14_BuilderReusableAfterSubmission ==
    [][submitted # <<>> =>
          /\ (/\ NoRunInFlight /\ run' # run /\ run'.op \in ExecOps
              /\ calls # <<>> /\ walletClient = "account") =>
                /\ run'.outcome = "none"
                /\ run'.log = <<[call |-> "readContract", res |-> "pending"]>>
          /\ calls' # calls =>
                \/ /\ Front(calls') = calls
                   /\ Front(operations') = operations
                   /\ Last(operations').call = Last(calls')
                \/ /\ calls # <<>>
                   /\ calls' = Front(calls)
                   /\ operations' = Front(operations)
                \/ calls' = <<>> /\ operations' = <<>>
       ]_vars

\* Two submissions were made from one builder, and a call was appended to
\* it after the dry call of the second.
C14_Witness ==
    /\ Len(submitted) = 2
    /\ run.op \in ExecOps
    /\ run.outcome = "returned"
    /\ Len(Get(run.request).calls) = 1
    /\ Len(calls) = 2

\* C15: no step of simulate, execute, executeSync or executeRealtime (its
\* start, the answer or the failure of a collaborator call, its return)
\* changes the queued calls, the operation records or the call objects.
C15_TerminalOperationsKeepLedger ==
    [][(run' # run /\ run'.op \in ExecOps \cup {"simulate"}) =>
          UNCHANGED <<heap, calls, operations>>
       ]_vars

\* execute has returned and the full ledger still holds the calls that were
\* submitted.
C15_Witness ==
    /\ run.op = "execute"
    /\ run.outcome = "returned"
    /\ Len(calls) = MaxExecCalls
    /\ Len(operations) = MaxExecCalls
    /\ CallValues(heap, calls) = Get(run.request).calls

-----------------------------------------------------------------------------
(* executeSync and executeRealtime *)

\* C16: on the same ledger, wallet, options and collaborator answers,
\* executeSync and executeRealtime make the same collaborator calls with
\* the same arguments and end alike, with the same error or the same
\* receipt, results and gasUsed; only the name of the submission method
\* differs.
C16_SyncAndRealtimeAlike ==
    run.op = "executeSync" =>
        /\ twin.op = "executeRealtime"
        /\ twin.options = run.options
        /\ twin.readArgs = run.readArgs
        /\ twin.requiredETH = run.requiredETH
        /\ twin.request = run.request
        /\ twin.outcome = run.outcome
        /\ twin.error = run.error
        /\ twin.result = run.result
        /\ (twin.pc = run.pc \/
               /\ run.pc = "eth_sendRawTransactionSync"
               /\ twin.pc = "realtime_sendRawTransaction")
        /\ Len(twin.log) = Len(run.log)
        /\ \A i \in DOMAIN run.log :
              /\ twin.log[i].res = run.log[i].res
              /\ IF i = 4
                 THEN /\ run.log[i].call = "eth_sendRawTransactionSync"
                      /\ twin.log[i].call = "realtime_sendRawTransaction"
                 ELSE twin.log[i].call = run.log[i].call

\* Both have returned the receipt of a batch of two calls whose logs report
\* the second call as failed.
C16_Witness ==
    /\ run.op = "executeSync"
    /\ run.outcome = "returned"
    /\ twin.outcome = "returned"
    /\ Len(Get(run.result).results) = 2
    /\ Get(twin.result).results[2].success = FALSE
    /\ Len(twin.log) = 5

\* C17: the dry-call request of executeSync and executeRealtime carries
\* the overrides of ExecuteOptions as the one of execute does: gasLimit,
\* maxFeePerGas, maxPriorityFeePerGas and nonce.
C17_SyncHonoursOverrides ==
    (run.op \in {"executeSync", "executeRealtime"} /\ run.request # None) =>
        /\ Get(run.request).gas = run.options.gasLimit
        /\ Get(run.request).maxFeePerGas = run.options.maxFeePerGas
        /\ Get(run.request).maxPriorityFeePerGas =
              run.options.maxPriorityFeePerGas
        /\ Get(run.request).nonce = run.options.nonce

\* C18, as claimed: the clock of executeSync and executeRealtime is started
\* after the required-value read, the dry call and the signing, so that
\* executionTimeMs spans the submission RPC alone.
C18_ClockSpansSubmissionOnly ==
    (run.op \in {"executeSync", "executeRealtime"} /\ run.outcome = "returned") =>
        /\ run.startTime = Some(3)
        /\ Get(run.result).executionTimeMs = 1

\* C18, amended: the clock is started once the preconditions hold and
\* before the required-value read, and is read again when the submission
\* RPC has answered, before the results are decoded: executionTimeMs spans
\* the read, the dry call, the signing and the submission.
C18_ClockSpansWholeRun ==
    run.op \in {"executeSync", "executeRealtime"} =>
        /\ run.log = <<>> => run.startTime = None
        /\ run.log # <<>> => run.startTime = Some(0)
        /\ run.outcome = "returned" =>
              /\ Get(run.result).executionTimeMs = 4
              /\ [i \in 1 .. 4 |-> run.log[i].call] =
                    <<"readContract", "simulateContract", "signTransaction",
                      SyncMethod(run.op)>>
              /\ run.log[5].call = "parseCallResults"

\* executeRealtime has returned with its clock reading.
C18_Witness ==
    /\ run.op = "executeRealtime"
    /\ run.outcome = "returned"
    /\ run.startTime = Some(0)
    /\ Get(run.result).executionTimeMs = 4

-----------------------------------------------------------------------------
(* decodeRevertError *)

\* C19: decodeRevertError returns a non-empty string for every payload:
\* for an empty or truncated one the no-data text, for a selector it knows
\* whose body does not decode the text of that branch's catch, for an
\* unknown selector the text that names it.
C19_DecodeAlwaysAnswers ==
    (decoded # None /\ Get(decoded).fn = "decodeRevertError") =>
        LET returnData == Get(decoded).returnData
            result == Get(decoded).result
        IN  /\ result # ""
            /\ Len(result) > 0
            /\ returnData.len < 10 => result = "Execution reverted with no data"
            /\ (returnData.len >= 10 /\ returnData.body = Garbage) =>
                  result =
                     CASE returnData.head = "0x08c379a0" ->
                             "Reverted (Error selector found but decode failed)"
                       [] returnData.head = "0x4e487b71" -> "Panic: unknown code"
                       [] returnData.head = "0x85d9d0b8" ->
                             "CallFailed: one of the batch calls reverted"
                       [] returnData.head = "0xdeadbeef" ->
                             "Reverted with unknown selector 0xdeadbeef"
                       [] OTHER -> customErrors[returnData.head]

\* The payload was the Error(string) selector with a body that does not
\* decode.
C19_Witness ==
    /\ decoded # None
    /\ Get(decoded).fn = "decodeRevertError"
    /\ Get(decoded).returnData = Payload("0x08c379a0", 10, Garbage)
    /\ Get(decoded).result = "Reverted (Error selector found but decode failed)"

\* C20: for a CallFailed(index, innerBytes) payload, with CallFailed nested
\* in CallFailed up to MaxNesting deep, decodeRevertError returns
\* "Call #{index} failed → " followed by what it returns for innerBytes.
C20_NestedCallFailedDecodes ==
    (/\ decoded # None /\ Get(decoded).fn = "decodeRevertError"
     /\ Get(decoded).returnData.body.kind = "indexBytes") =>
        LET body == Get(decoded).returnData.body
            result == Get(decoded).result
        IN  /\ result = "Call #" \o ToString(body.index) \o " failed → "
                            \o decodeRevertError(body.inner)
            /\ (body.index = 2 /\
                body.inner = Payload("0x08c379a0", 202,
                                 StringBody("transfer amount exceeds balance"))) =>
                  result =
                    "Call #2 failed → Reverted: transfer amount exceeds balance"
            /\ (body.index = 0 /\
                body.inner = CallFailedPayload("0x85d9d0b8", 2,
                                 Payload("0x4e487b71", 74, UintBody(<<1, 1>>)))) =>
                  result =
                    "Call #0 failed → Call #2 failed → Panic: arithmetic overflow/underflow"

\* A CallFailed whose inner bytes are a CallFailed at index 2 holding
\* Error("transfer amount exceeds balance") has been decoded.
C20_Witness ==
    /\ decoded # None
    /\ Get(decoded).fn = "decodeRevertError"
    /\ Get(decoded).returnData.body.kind = "indexBytes"
    /\ Get(decoded).returnData.body.inner.body.kind = "indexBytes"
    /\ Get(decoded).result =
          "Call #0 failed → Call #2 failed → Reverted: transfer amount exceeds balance"

-----------------------------------------------------------------------------
(* parseCallResults *)

\* C21: the first strategy that succeeds decides.  A rawReturnData longer
\* than "0x" that decodes is returned as decoded; otherwise, with at least
\* one CallExecuted log, there are callCount entries of empty returnData
\* that carry the flags of the logs; otherwise there are callCount entries
\* {success: true, returnData: "0x"}.  A rawReturnData that does not decode
\* is passed over.
C21_FirstStrategyDecides ==
    (decoded # None /\ Get(decoded).fn = "parseCallResults") =>
        LET raw == Get(decoded).rawReturnData
            logs == Get(decoded).receipt.logs
            callCount == Get(decoded).callCount
            result == Get(decoded).result
            decodes == /\ raw # None
                       /\ Get(raw).len > 2
                       /\ Get(raw).decoded # None
            executed == {i \in DOMAIN logs : logs[i].eventName = "CallExecuted"}
        IN  /\ decodes => result = Get(Get(raw).decoded)
            /\ (~decodes /\ executed # {}) =>
                  /\ Len(result) = callCount
                  /\ \A k \in DOMAIN result : result[k].returnData = "0x"
                  /\ \A i \in executed :
                        (/\ logs[i].callIndex < callCount
                         /\ \A j \in executed :
                               logs[j].callIndex = logs[i].callIndex => j <= i) =>
                            result[logs[i].callIndex + 1].success = logs[i].success
            /\ (~decodes /\ executed = {}) =>
                  result = [k \in 1 .. callCount |->
                               [success |-> TRUE, returnData |-> "0x"]]

\* A rawReturnData that does not decode was given with a receipt whose logs
\* report call 1 as failed: the result came from the logs.
C21_Witness ==
    /\ decoded # None
    /\ Get(decoded).fn = "parseCallResults"
    /\ Get(decoded).rawReturnData = Some([len |-> 10, decoded |-> None])
    /\ Get(decoded).callCount = 2
    /\ Get(decoded).result[1].success = TRUE
    /\ Get(decoded).result[2].success = FALSE

\* C22: when the logs decide, entry i (from 0, below callCount) carries
\* the success flag of the last CallExecuted log with callIndex i and empty
\* returnData, and is {success: true, returnData: "0x"} when there is no
\* such log; a log whose callIndex is callCount or more adds no entry.
C22_LogStrategyPerIndex ==
    (decoded # None /\ Get(decoded).fn = "parseCallResults") =>
        LET raw == Get(decoded).rawReturnData
            logs == Get(decoded).receipt.logs
            callCount == Get(decoded).callCount
            result == Get(decoded).result
            decodes == /\ raw # None
                       /\ Get(raw).len > 2
                       /\ Get(raw).decoded # None
            executed == {i \in DOMAIN logs : logs[i].eventName = "CallExecuted"}
        IN  (~decodes /\ executed # {}) =>
               /\ DOMAIN result = 1 .. callCount
               /\ \A k \in 0 .. (callCount - 1) :
                     LET hits == {i \in executed : logs[i].callIndex = k}
                         last == CHOOSE i \in hits : \A j \in hits : j <= i
                     IN  result[k + 1] =
                            IF hits = {}
                            THEN [success |-> TRUE, returnData |-> "0x"]
                            ELSE [success |-> logs[last].success,
                                  returnData |-> "0x"]

\* Three calls and a receipt with two logs for call 0 (failed, then
\* succeeded), two for call 1 (succeeded, then failed) and none for call 2.
C22_Witness ==
    /\ decoded # None
    /\ Get(decoded).fn = "parseCallResults"
    /\ Get(decoded).rawReturnData = None
    /\ Get(decoded).callCount = 3
    /\ Len(Get(decoded).receipt.logs) = 5
    /\ Get(decoded).result =
          <<[success |-> TRUE, returnData |-> "0x"],
            [success |-> FALSE, returnData |-> "0x"],
            [success |-> TRUE, returnData |-> "0x"]>>

-----------------------------------------------------------------------------
(* The nonce cache, entry by entry *)

\* C23: a getNextNonce(a) that returns yields the larger of the network's
\* pending nonce and the cached value of a's lower-cased address plus one
\* (the network's nonce when nothing is cached), stores it as the entry of
\* that lower-cased address, and leaves every other entry as it was.
C23_NextNonceIsMaxAndCached ==
    [][\A a \in Addresses :
          (inflight'[a] = inflight[a] - 1 /\ nonceCache' # nonceCache) =>
             LET key == CASE a = "0xAbC1" -> "0xabc1"
                          [] a = "0xabc1" -> "0xabc1"
                          [] a = "0xDEF2" -> "0xdef2"
                 lastIssued == IF key \in DOMAIN nonceCache
                               THEN nonceCache[key] ELSE -1
                 networkNonce == Last(sinceReset'[key]).network
                 expected == IF networkNonce >= lastIssued + 1
                             THEN networkNonce ELSE lastIssued + 1
             IN  /\ Len(issued'[key]) = Len(issued[key]) + 1
                 /\ Last(issued'[key]) = expected
                 /\ Last(sinceReset'[key]).address = a
                 /\ DOMAIN nonceCache' = DOMAIN nonceCache \cup {key}
                 /\ nonceCache'[key] = expected
                 /\ \A other \in DOMAIN nonceCache \ {key} :
                       nonceCache'[other] = nonceCache[other]
       ]_vars

\* The same address was passed in two spellings; the network reported the
\* same pending nonce both times and the second call got the next one.
C23_Witness ==
    /\ Len(sinceReset["0xabc1"]) = 2
    /\ sinceReset["0xabc1"][1].address = "0xAbC1"
    /\ sinceReset["0xabc1"][2].address = "0xabc1"
    /\ sinceReset["0xabc1"][1].network = sinceReset["0xabc1"][2].network
    /\ sinceReset["0xabc1"][2].nonce = sinceReset["0xabc1"][1].nonce + 1
    /\ nonceCache["0xabc1"] = sinceReset["0xabc1"][2].nonce

\* C24: resetNonce(a) removes the entry of a's lower-cased address and no
\* other; the first getNextNonce to return for that address afterwards
\* yields the network's pending nonce; and a step that is not a reset of an
\* address neither removes nor lowers its entry.
C24_ResetRemovesOneEntry ==
    /\ [][\A key \in DOMAIN nonceCache :
             IF sinceReset[key] # <<>> /\ sinceReset'[key] = <<>>
             THEN /\ key \in {"0xabc1", "0xdef2"}
                  /\ DOMAIN nonceCache' = DOMAIN nonceCache \ {key}
                  /\ \A other \in DOMAIN nonceCache \ {key} :
                        nonceCache'[other] = nonceCache[other]
             ELSE /\ key \in DOMAIN nonceCache'
                  /\ nonceCache'[key] >= nonceCache[key]
        ]_vars
    /\ [](\A key \in {"0xabc1", "0xdef2"} :
             /\ key \in DOMAIN nonceCache => sinceReset[key] # <<>>
             /\ sinceReset[key] # <<>> =>
                   sinceReset[key][1].nonce = sinceReset[key][1].network)

\* An address was reset while another address kept its entry, and the first
\* nonce issued after the reset is the network's, below the one issued before.
C24_Witness ==
    /\ Len(issued["0xabc1"]) = 2
    /\ Len(sinceReset["0xabc1"]) = 1
    /\ issued["0xabc1"][2] = sinceReset["0xabc1"][1].network
    /\ issued["0xabc1"][2] < issued["0xabc1"][1]
    /\ "0xdef2" \in DOMAIN nonceCache
    /\ Len(sinceReset["0xdef2"]) = Len(issued["0xdef2"])

-----------------------------------------------------------------------------
(* The required value *)

\* C25: calculateRequiredETH() on an empty ledger returns 0 and calls no
\* collaborator; on a non-empty ledger it makes one router read whose
\* argument is the whole call list, and never a second call.
C25_RequiredValueOneRead ==
    /\ [][(run.pc \in {"idle", "done"} /\ run' # run
           /\ run'.op = "calculateRequiredETH") =>
             IF Len(calls) = 0
             THEN /\ run'.pc = "done" /\ run'.outcome = "returned"
                  /\ run'.result = Some(0)
                  /\ run'.log = <<>>
             ELSE /\ run'.pc = "readContract"
                  /\ run'.log = <<[call |-> "readContract", res |-> "pending"]>>
                  /\ run'.readArgs =
                        Some([i \in 1 .. Len(calls) |-> heap[calls[i]]])
        ]_vars
    /\ [](run.op = "calculateRequiredETH" =>
             /\ Len(run.log) <= 1
             /\ \A i \in DOMAIN run.log : run.log[i].call = "readContract"
             /\ (run.pc = "done" /\ run.log = <<>>) => run.result = Some(0))

\* calculateRequiredETH() has returned what the router answered to its one
\* read of a two-call ledger.
C25_Witness ==
    /\ run.op = "calculateRequiredETH"
    /\ run.pc = "done" /\ run.outcome = "returned"
    /\ run.log = <<[call |-> "readContract", res |-> "ok"]>>
    /\ Len(Get(run.readArgs)) = MaxExecCalls
    /\ run.result = Some(1)

-----------------------------------------------------------------------------
(* pop *)

\* C26: pop() on an empty ledger returns undefined and leaves the ledger
\* empty; on a non-empty ledger it returns the last queued call, removes
\* that call and its operation record, and leaves every earlier call and
\* record as it was.
C26_PopRemovesAndReturnsLast ==
    [][Len(popped') = Len(popped) + 1 =>
          LET returned == popped'[Len(popped')]
              n == Len(calls)
          IN  IF n = 0
              THEN /\ returned = None
                   /\ calls' = <<>> /\ operations' = <<>>
              ELSE /\ returned = Some(heap[calls[n]])
                   /\ operations[n].call = calls[n]
                   /\ calls' = SubSeq(calls, 1, n - 1)
                   /\ operations' = SubSeq(operations, 1, n - 1)
                   /\ \A i \in 1 .. n - 1 : heap'[calls[i]] = heap[calls[i]]
    ]_vars

\* A ledger of two different calls was popped twice and then once more: the
\* later call came back first, the empty ledger gave undefined.
C26_Witness ==
    /\ Len(popped) = 3
    /\ popped[1] # None /\ popped[2] # None
    /\ popped[1] # popped[2]
    /\ popped[3] = None
    /\ calls = <<>> /\ operations = <<>>

-----------------------------------------------------------------------------
(* Safe approve *)

-----------------------------------------------------------------------------
(* The gas buffer *)

\* C28: for a gas estimate (a non-negative integer) and a whole percentage,
\* applyMegaethGasBuffer(estimate, pct) is the floor of
\* estimate * (100 + pct) / 100, with pct 10 when it is left out: 100000
\* gives 110000 by default and 130000 with pct 30, 0 gives 0, and the result
\* is never below the estimate; a successful simulate() returns the
\* estimate the node gave with the 10% buffer applied.
C28_GasBufferIsFloor ==
    /\ (decoded # None /\ Get(decoded).fn = "applyMegaethGasBuffer") =>
          LET estimate == Get(decoded).estimate
              pct == IF Get(decoded).bufferPct = None THEN 10
                     ELSE Get(Get(decoded).bufferPct)
              result == Get(decoded).result
          IN  /\ 100 * result <= estimate * (100 + pct)
              /\ estimate * (100 + pct) < 100 * (result + 1)
              /\ result >= estimate
              /\ (estimate = 100000 /\ pct = 10) => result = 110000
              /\ (estimate = 100000 /\ pct = 30) => result = 130000
              /\ estimate = 0 => result = 0
    /\ (run.op = "simulate" /\ run.outcome = "returned"
        /\ Get(run.result).success) =>
          LET raw == Get(run.gasEstimate)
              gasEstimate == Get(run.result).gasEstimate
          IN  /\ 100 * gasEstimate <= raw * 110
              /\ raw * 110 < 100 * (gasEstimate + 1)

\* A successful simulate() has returned 110000 for an estimate of 100000,
\* and the function by itself gave 19 for 15 with 33%.
C28_Witness ==
    /\ run.op = "simulate" /\ run.outcome = "returned"
    /\ Get(run.result).success
    /\ run.gasEstimate = Some(100000)
    /\ Get(run.result).gasEstimate = 110000
    /\ decoded # None /\ Get(decoded).fn = "applyMegaethGasBuffer"
    /\ Get(decoded).estimate = 15 /\ Get(decoded).bufferPct = Some(33)
    /\ Get(decoded).result = 19

-----------------------------------------------------------------------------
(* Panic codes *)

\* C29: for a Panic(uint256) payload whose code decodes, decodeRevertError
\* answers "Panic: " followed by the fixed message of each of the ten
\* known codes (0x11 mentions overflow, 0x32 array index out of bounds) and
\* by "code 0x" and the hexadecimal digits of the code for every other code.
C29_PanicCodesDecode ==
    (/\ decoded # None /\ Get(decoded).fn = "decodeRevertError"
     /\ Get(decoded).returnData.len >= 10
     /\ Get(decoded).returnData.head \in {"0x4e487b71", "0x4E487B71"}
     /\ Get(decoded).returnData.body.kind = "uint") =>
        LET code == Get(decoded).returnData.body.code
            result == Get(decoded).result
        IN  result = "Panic: " \o
               CASE code = <<0>> -> "generic panic"
                 [] code = <<1>> -> "assert failed"
                 [] code = <<1, 1>> -> "arithmetic overflow/underflow"
                 [] code = <<1, 2>> -> "division by zero"
                 [] code = <<2, 1>> -> "invalid enum value"
                 [] code = <<2, 2>> -> "storage access out of bounds"
                 [] code = <<3, 1>> -> "pop on empty array"
                 [] code = <<3, 2>> -> "array index out of bounds"
                 [] code = <<4, 1>> -> "out of memory"
                 [] code = <<5, 1>> -> "uninitialized function pointer"
                 [] OTHER -> "code 0x" \o toHex(code)

-----------------------------------------------------------------------------
(* Aggregate reads *)

\* C30: when multicall resolves, getMultipleBalances returns one entry for
\* each requested token, in request order, with the balance that was read
\* or 0 where the read of that entry failed; entries that failed do not
\* make the call fail.
C30_OneBalancePerToken ==
    (/\ decoded # None /\ Get(decoded).fn = "getMultipleBalances"
     /\ Get(decoded).results # None) =>
        LET tokens == Get(decoded).tokens
            results == Get(Get(decoded).results)
            result == Get(decoded).result
        IN  /\ Get(decoded).outcome = "returned"
            /\ Len(result) = Len(tokens)
            /\ \A i \in 1 .. Len(tokens) :
                  /\ result[i].token = tokens[i]
                  /\ results[i].status = "failure" => result[i].balance = 0
                  /\ results[i].status = "success" =>
                        result[i].balance = results[i].result[1]
                  /\ Get(decoded).contracts[i].address = tokens[i]
                  /\ Get(decoded).contracts[i].args = <<Get(decoded).owner>>

\* Two tokens were asked for; the read of the first failed, the second read
\* gave 2.
C30_Witness ==
    /\ decoded # None /\ Get(decoded).fn = "getMultipleBalances"
    /\ Get(decoded).outcome = "returned"
    /\ Get(decoded).tokens = <<TOKEN_USDC, TOKEN_WETH>>
    /\ Get(Get(decoded).results)[1].status = "failure"
    /\ Get(Get(decoded).results)[2].status = "success"
    /\ Get(decoded).result =
          <<[token |-> TOKEN_USDC, balance |-> 0],
            [token |-> TOKEN_WETH, balance |-> 2]>>

-----------------------------------------------------------------------------
(* The kinds of the operation records *)

\* C31: the record of a call queued by approve() has kind "approve" and
\* the record of a call queued by swapExactTokensForTokens() has kind
\* "swap", and summary() prints them so; each record of safeApprove() has
\* kind "safeApprove".  (In the ledger specification only approve() queues
\* approve calldata without metadata, only swapExactTokensForTokens() queues
\* its selector, and only safeApprove() records a spender.)
C31_RecordKindNamesMethod ==
    \A i \in DOMAIN operations :
        LET op == operations[i]
            call == heap[op.call]
            line == summaryOperations(Ledger)[i]
        IN  /\ (call.callData.sel = "0x095ea7b3" /\ op.metadata = None) =>
                  /\ op.type = "approve"
                  /\ line = "  " \o ToString(i) \o ". approve → "
                               \o call.target \o "..."
            /\ call.callData.sel = "0x38ed1739" =>
                  /\ op.type = "swap"
                  /\ line = "  " \o ToString(i) \o ". swap → "
                               \o call.target \o "..."
            /\ (op.metadata # None /\ "spender" \in DOMAIN Get(op.metadata)) =>
                  op.type = "safeApprove"

-----------------------------------------------------------------------------
(* The ledger changing under a suspended run *)

\* C32: the results that execute, executeSync or executeRealtime return
\* hold one entry for each call of the batch that was dry-run and submitted,
\* whatever add, pop or clear did to the builder while the run was suspended.
C32_OneResultPerSubmittedCall ==
    (run.op \in ExecOps /\ run.outcome = "returned") =>
        Len(Get(run.result).results) = Len(Get(run.request).calls)

\* C33: the call list a run passes to the dry call (and so submits) is the
\* list that passed the non-empty check at entry and for which the required
\* value was read, whatever add, pop or clear did meanwhile; it is never
\* empty.
C33_OneCallListPerRun ==
    (run.op \in ExecOps \cup {"simulate"} /\ run.request # None) =>
        /\ Get(run.request).calls # <<>>
        /\ run.readArgs # None
        /\ Get(run.request).calls = Get(run.readArgs)

-----------------------------------------------------------------------------
(* Results from the logs *)

\* C34: execute, executeSync and executeRealtime decode from the receipt's
\* logs alone: every result they return has returnData "0x", and the result
\* of a call index is a failure only if a CallExecuted log of the receipt
\* for that index says so.
C34_ResultsFromLogsOnly ==
    (run.op \in ExecOps /\ run.outcome = "returned") =>
        LET results == Get(run.result).results
            logs == Get(run.result).receipt.logs
        IN  \A k \in DOMAIN results :
               /\ results[k].returnData = "0x"
               /\ ~results[k].success =>
                     \E j \in DOMAIN logs :
                        /\ logs[j].eventName = "CallExecuted"
                        /\ logs[j].callIndex = k - 1
                        /\ ~logs[j].success

\* execute() has returned two results for a receipt whose logs report call 0
\* as a success and call 1 as a failure.
C34_Witness ==
    /\ run.op = "execute" /\ run.outcome = "returned"
    /\ Len(Get(run.result).results) = 2
    /\ Get(run.result).results[1].success
    /\ ~Get(run.result).results[2].success
    /\ Get(run.result).results[2].returnData = "0x"

-----------------------------------------------------------------------------
(* Selectors *)

\* C35: decodeRevertError answers "Execution reverted with no data" for a
\* payload of fewer than 10 characters ("0x" and 4 bytes); for a longer one
\* whose selector, letter case aside, is none of Error(string),
\* Panic(uint256) and the router's 8 errors it answers "Reverted with
\* unknown selector " and the selector; and a selector in capital letters
\* is decoded as the same selector in small letters.
C35_SelectorClassifies ==
    (decoded # None /\ Get(decoded).fn = "decodeRevertError") =>
        LET returnData == Get(decoded).returnData
            result == Get(decoded).result
            head == returnData.head
            body == returnData.body
            selector == CASE head = "0x08C379A0" -> "0x08c379a0"
                          [] head = "0x4E487B71" -> "0x4e487b71"
                          [] head = "0x85D9D0B8" -> "0x85d9d0b8"
                          [] head = "0xDEADBEEF" -> "0xdeadbeef"
                          [] OTHER -> head
            known == {"0x08c379a0", "0x4e487b71", "0x3e3f8f73", "0xfe9ba5cd",
                      "0xd4a5e2bf", "0x1425f8f8", "0x4a3f0f2d", "0x85d9d0b8",
                      "0xb5e9e6d2", "0x750b219c"}
            unknown == "Reverted with unknown selector " \o selector
        IN  /\ returnData.len < 10 => result = "Execution reverted with no data"
            /\ (returnData.len >= 10 /\ selector \notin known) => result = unknown
            /\ (returnData.len >= 10 /\ selector \in known) => result # unknown
            /\ (head = "0x08C379A0" /\ body.kind = "string") =>
                  result = "Reverted: " \o body.message
            /\ (head = "0x4E487B71" /\ body.kind = "uint" /\ body.code = <<1, 1>>) =>
                  result = "Panic: arithmetic overflow/underflow"
            /\ (head = "0x85D9D0B8" /\ body.kind = "indexBytes") =>
                  result = "Call #" \o ToString(body.index) \o " failed → "
                              \o decodeRevertError(body.inner)

\* A payload with the unknown selector 0xDEADBEEF in capital letters has
\* been decoded.
C35_Witness ==
    /\ decoded # None /\ Get(decoded).fn = "decodeRevertError"
    /\ Get(decoded).returnData.head = "0xDEADBEEF"
    /\ Get(decoded).returnData.len >= 10
    /\ Get(decoded).result = "Reverted with unknown selector 0xdeadbeef"

\* C36: with the Error(string) selector and a payload that does not decode
\* as a string, decodeRevertError answers "Reverted (Error selector found
\* but decode failed)"; with the CallFailed selector and a payload that does
\* not decode as (uint256, bytes), it answers the fixed CallFailed text and
\* nothing of an inner payload.
C36_MalformedPayloadFallsBack ==
    (/\ decoded # None /\ Get(decoded).fn = "decodeRevertError"
     /\ Get(decoded).returnData.len >= 10) =>
        LET head == Get(decoded).returnData.head
            body == Get(decoded).returnData.body
            result == Get(decoded).result
        IN  /\ (head \in {"0x08c379a0", "0x08C379A0"} /\ body.kind # "string") =>
                  result = "Reverted (Error selector found but decode failed)"
            /\ (head \in {"0x85d9d0b8", "0x85D9D0B8"}
                /\ body.kind # "indexBytes") =>
                  result = "CallFailed: one of the batch calls reverted"

\* A CallFailed selector followed by a single word has been decoded.
C36_Witness ==
    /\ decoded # None /\ Get(decoded).fn = "decodeRevertError"
    /\ Get(decoded).returnData = Payload("0x85d9d0b8", 74, UintBody(<<2>>))
    /\ Get(decoded).result = "CallFailed: one of the batch calls reverted"

-----------------------------------------------------------------------------
(* kyberSwap *)

\* C37: a kyberSwap that ends has appended one call with one record when
\* the routes request and the build request both answered with a success
\* status and application code 0, and that call is the one the build
\* answer describes; otherwise it has raised and left the calls, the
\* records and the call objects as they were.  The step that takes the
\* routes answer never touches the ledger.
C37_KyberSwapAppendsOnSuccess ==
    [][IF decoded' = None \/ decoded' = decoded THEN TRUE
       ELSE IF Get(decoded').fn # "kyberSwap" THEN TRUE
       ELSE IF Get(decoded').pc = "getKyberQuote" THEN TRUE
       ELSE
          LET k == Get(decoded')
              good(res) == res # None /\ Get(res).ok /\ Get(res).code = 0
              n == Len(calls)
          IN  IF k.pc = "buildKyberSwap"
              THEN good(k.quote) /\ UNCHANGED <<heap, calls, operations>>
              ELSE IF good(k.quote) /\ good(k.build)
              THEN /\ k.outcome = "returned"
                   /\ Len(calls') = n + 1 /\ Len(operations') = n + 1
                   /\ SubSeq(calls', 1, n) = calls
                   /\ SubSeq(operations', 1, n) = operations
                   /\ \A i \in 1 .. n : heap'[calls[i]] = heap[calls[i]]
                   /\ heap'[calls'[n + 1]].target = Get(k.build).data.routerAddress
                   /\ heap'[calls'[n + 1]].callData.sel = Get(k.build).data.data
                   /\ ToString(heap'[calls'[n + 1]].value) = Get(k.build).data.value
                   /\ operations'[n + 1].call = calls'[n + 1]
              ELSE /\ k.outcome = "raised"
                   /\ UNCHANGED <<heap, calls, operations>>
    ]_vars

\* kyberSwap has returned behind a raw call: the ledger holds that call and
\* the built one, which carries value 1.
C37_Witness ==
    /\ decoded # None /\ Get(decoded).fn = "kyberSwap"
    /\ Get(decoded).outcome = "returned"
    /\ Len(calls) = 2
    /\ heap[calls[1]].target = TOKEN_USDC
    /\ heap[calls[2]].target = DEX_ROUTER
    /\ heap[calls[2]].value = 1

-----------------------------------------------------------------------------
(* client.batch *)

\* C38: batch() adds one builder whose calls and records are empty and
\* whose wallet is the one the client has at that moment, and leaves every
\* earlier builder as it was; any other step changes what at most one
\* builder shows of its ledger, and no builder's wallet.
C38_BatchBuildersAreSeparate ==
    [][client' # client =>
          LET n == Len(client.builders)
              changed == { b \in 1 .. n :
                             ContentsOf(client', b) # ContentsOf(client, b) }
          IN  /\ \A b \in 1 .. n :
                    client'.builders[b].walletClient
                        = client.builders[b].walletClient
              /\ IF Len(client'.builders) = n + 1
                 THEN /\ changed = {}
                      /\ ContentsOf(client', n + 1)
                            = [calls |-> <<>>, operations |-> <<>>]
                      /\ client'.builders[n + 1].walletClient
                            = client.walletClient
                      /\ client'.walletClient = client.walletClient
                 ELSE /\ Len(client'.builders) = n
                      /\ Cardinality(changed) <= 1
    ]_vars

\* Two builders of one client, made under different wallets, hold different
\* ledgers, and the client has since been connected to the other wallet.
C38_Witness ==
    /\ Len(client.builders) = 2
    /\ client.builders[1].walletClient = "account"
    /\ client.builders[2].walletClient = "noAccount"
    /\ client.walletClient = "account"
    /\ Len(ContentsOf(client, 1).calls) = 2
    /\ Len(ContentsOf(client, 2).calls) = 1
    /\ ContentsOf(client, 2).calls[1].target = DEX_ROUTER

-----------------------------------------------------------------------------
(* chunkCalls *)

\* C39: whatever the list and the integer maxPerBatch, every chunk that
\* chunkCalls has pushed holds at least 1 and at most maxPerBatch elements,
\* so the loop is followed at most once for each element and ends, and the
\* chunks it returns are the input list when put end to end.
C39_ChunksCoverInput ==
    IF decoded = None THEN TRUE
    ELSE IF Get(decoded).fn # "chunkCalls" THEN TRUE
    ELSE LET c == Get(decoded)
         IN  /\ \A k \in DOMAIN c.chunks :
                    /\ Len(c.chunks[k]) >= 1
                    /\ Len(c.chunks[k]) <= c.maxPerBatch
             /\ Len(c.chunks) <= Len(c.calls)
             /\ c.pc = "done" =>
                    /\ SumSeq([k \in DOMAIN c.chunks |-> Len(c.chunks[k])])
                          = Len(c.calls)
                    /\ \A k \in DOMAIN c.chunks :
                          c.chunks[k] =
                              SubSeq(c.calls, (k - 1) * c.maxPerBatch + 1,
                                     (k - 1) * c.maxPerBatch + Len(c.chunks[k]))

=============================================================================
